---- MODULE Spec2Model ----
(***************************************************************************)
(* The reactivity core of vue-next-read: the dependency graph (targetMap), *)
(* the effect runtime (effect, run, cleanup, stop, track, trigger), the    *)
(* base proxy handlers (get, set), reference cells (ref) and memoized      *)
(* effects (computed).                                                     *)
(*                                                                         *)
(* User code is synchronous and re-entrant: a write runs effects, whose    *)
(* bodies read and write again.  The model keeps the call stack explicit   *)
(* (frames): every library function is one atomic step, every user         *)
(* function (an effect body, a computed getter) is a frame with a program  *)
(* counter, so that "before the write returns" is a state of the model.    *)
(***************************************************************************)
EXTENDS Integers, Sequences, FiniteSets, TLC

\* ------------------------------------------------------------------ bounds
MaxOps == 3        \* operations user code performs outside any effect
MaxDepth == 9      \* nested calls (frames)

\* ---------------------------------------------------------------- universe
Vals == {"0", "1"}           \* the values user code stores (primitives)
undefined == "undefined"     \* the value undefined
NaN == "NaN"
absent == "absent"           \* heap marker: the object has no such own key
NoEffect == "none"           \* activeEffect === undefined

UserEffects == {"e1", "e2"}  \* effects made by effect(fn, options)
Computeds == {"c1", "c2"}    \* computed(getter): the id names cell and runner
AllEffects == UserEffects \cup Computeds

\* Raw targets: o, a plain object; arr, an array; m, a Map; r, a ref cell;
\* s, a Set; p, a plain object whose property c holds the ref cell r.
\* Each is read and written through its mutable view only.
ITERATE_KEY == "Symbol(iterate)"
Keys(t) == CASE t = "o" -> {"a", "b"}
             [] t = "arr" -> {"0", "length"}
             [] t = "m" -> {"x", "undefined"}   \* the Map keys 'x' and undefined
             [] t = "r" -> {"value"}
             [] t = "s" -> {"x"}                 \* the Set's possible member 'x'
             [] t = "p" -> {"c"}
Targets == {"o", "arr", "m", "r", "s", "p"}
Props == UNION {{<<t, k>> : k \in Keys(t)} : t \in Targets}
isArray(t) == t = "arr"
isMap(t) == t = "m"

Range(s) == {s[i] : i \in 1 .. Len(s)}
Front(s) == SubSeq(s, 1, Len(s) - 1)
Remove(s, x) == SelectSeq(s, LAMBDA y : y # x)
Falsy(v) == v \in {"0", undefined, NaN, "false"}

\* ------------------------------------------------------------- user programs
\* An instruction of user code.
\*   get:  t.k  or  m.get(k)   (cond: only when the previous read was truthy,
\*                              as in  o.a && o.b )
\*   set:  t.k = v  or  m.set(k, v)
\*   del:  delete t.k  or  m.delete(k)
\*   keys: Object.keys(t)  or  m.size     clear: m.clear()
\*   has:  s.has(k)     add: s.add(k)
\*   cget: c.value     rget / rset: r.value, r.value = v
\*   stop: stop(e)     call: e()     pause / resume: pauseTracking() ...
Get(t, k, cond) == <<"get", t, k, cond>>
Set(t, k, v) == <<"set", t, k, v>>
Del(t, k) == <<"del", t, k>>
OwnKeys(t) == <<"keys", t>>
Clear(t) == <<"clear", t>>
Has(t, k) == <<"has", t, k>>
SetAdd(t, k) == <<"add", t, k>>
CGet(c) == <<"cget", c>>
RGet == <<"rget">>
RSet(v) == <<"rset", v>>
Stop(e) == <<"stop", e>>
Call(e) == <<"call", e>>
Pause == <<"pause">>
Resume == <<"resume">>
\* throw: the function throws; try: the next instruction is wrapped in
\* try { ... } catch {}
Throw == <<"throw">>
\* includes: t.includes(x), t.indexOf(x) or t.lastIndexOf(x) on the array t
Includes(method, t, x) == <<"includes", method, t, x>>
Try == <<"try">>

\* The effects user code may create, effect(body, options), and what it may
\* do outside any effect, in the scenes the model is explored in: "core"
\* (an object, a ref, two chained computeds), "keys" (object, array and
\* Map keys coming and going) and "throw" (bodies that throw, and a body
\* that catches what a nested run throws).
\* options: plain {}, sched {scheduler}, computed {computed: true};
\* a computed's runner has {lazy, computed, scheduler: () => dirty = true}.
Prog(body, options) == [body |-> body, options |-> options]
Programs(scene) ==
    IF scene = "core"
    THEN { Prog(<<Get("o", "a", FALSE)>>, "plain"),
           Prog(<<Get("o", "a", FALSE)>>, "sched"),
           Prog(<<Get("o", "a", FALSE)>>, "computed"),
           Prog(<<Get("o", "a", FALSE), Get("o", "b", TRUE)>>, "plain"),
           Prog(<<Get("o", "a", FALSE), Set("o", "a", "1")>>, "plain"),
           Prog(<<Get("o", "b", FALSE), Set("o", "a", "0")>>, "plain"),
           Prog(<<CGet("c2")>>, "plain"),
           Prog(<<RGet>>, "plain"),
           Prog(<<Stop("e1"), Get("o", "a", FALSE)>>, "plain") }
    ELSE IF scene = "array"
    THEN { Prog(<<Includes("includes", "arr", "1")>>, "plain"),
           Prog(<<Includes("indexOf", "arr", "1")>>, "plain"),
           Prog(<<Includes("lastIndexOf", "arr", "0")>>, "plain"),
           Prog(<<Get("arr", "0", FALSE), Includes("includes", "arr", "1")>>, "plain"),
           Prog(<<Get("arr", "length", FALSE)>>, "plain") }
    ELSE IF scene = "throw"
    THEN { Prog(<<Get("o", "a", FALSE), Throw>>, "plain"),
           Prog(<<Get("o", "a", FALSE)>>, "plain"),
           Prog(<<Try, Set("o", "a", "1"), Get("o", "b", FALSE)>>, "plain"),
           Prog(<<Set("o", "a", "1"), Get("o", "b", FALSE)>>, "plain") }
    ELSE { Prog(<<Get("o", "a", FALSE), OwnKeys("o")>>, "plain"),
           Prog(<<Get("o", "b", FALSE)>>, "computed"),
           Prog(<<Get("arr", "0", FALSE), Get("arr", "length", FALSE)>>, "plain"),
           Prog(<<Get("m", "x", FALSE)>>, "plain"),
           Prog(<<Get("m", "undefined", FALSE)>>, "plain"),
           Prog(<<OwnKeys("m")>>, "sched"),
           Prog(<<Has("s", "x")>>, "plain"),
           Prog(<<Get("p", "c", FALSE)>>, "plain") }

UserOps(scene) ==
    IF scene = "core"
    THEN {Set("o", k, v) : k \in Keys("o"), v \in Vals}
           \cup {CGet(c) : c \in Computeds}
           \cup {RSet(v) : v \in Vals} \cup {Stop(e) : e \in AllEffects}
           \cup {Call(e) : e \in UserEffects} \cup {Pause, Resume}
    ELSE IF scene = "array"
    THEN {Set("arr", "0", v) : v \in Vals}
    ELSE IF scene = "throw"
    THEN {Set("o", k, v) : k \in Keys("o"), v \in Vals}
    ELSE {Set("o", "b", v) : v \in Vals \cup {NaN}} \cup {Set("arr", "0", v) : v \in Vals}
           \cup {SetAdd("s", "x"), Del("s", "x")} \cup {Set("p", "c", v) : v \in Vals}
           \cup {Set("m", k, v) : k \in Keys("m"), v \in Vals}
           \cup {Del("o", "b")} \cup {Del("m", k) : k \in Keys("m")}
           \cup {Clear("m")}

\* The getters of the two computeds: c1 = computed(() => o.a),
\* c2 = computed(() => c1.value).
Getter(c) == IF c = "c1" THEN <<Get("o", "a", FALSE)>> ELSE <<CGet("c1")>>

\* -------------------------------------------------------------------- state
VARIABLES
    scene,         \* which programs user code is drawn from (never changes)
    heap,          \* raw objects: heap[<<target, key>>], a value or absent
    targetMap,     \* targetMap[target]: the depsMap, a sequence of
                   \*   [key, dep] in insertion order; <<>>: no depsMap
    created,       \* the effects createReactiveEffect has made
    returned,      \* the effects whose handle user code holds
    fn,            \* effect.raw: the body
    opts,          \* effect.options
    active,        \* effect.active
    deps,          \* effect.deps: sequence of <<target, key>> naming dep-sets
    effectStack,
    activeEffect,
    shouldTrack,
    dirty,         \* computed: dirty
    value,         \* computed: the cached value
    frames,        \* the call stack of user functions and library calls
    nops,          \* operations of user code outside effects so far
    hist           \* history variables the properties are stated with

\* The identity registry and the views (reactive.ts, lock.ts).
VARIABLES
    reg,           \* the registry: the views made, the four WeakMaps, the two WeakSets
    LOCKED,        \* lock.ts: the process-wide flag
    last,          \* history: the last call of user code on the registry or a view
    ncalls         \* calls of user code on the registry and on views so far

regVars == <<reg, LOCKED, last, ncalls>>

\* The scheduler (scheduler.ts).
VARIABLES
    queue,           \* the job queue
    postFlushCbs,    \* the post-flush callbacks
    isFlushing,
    isFlushPending,  \* flushJobs is a pending microtask
    seen,            \* flushJobs' CountMap, as a function
    phase,           \* where flushJobs is: "idle", "jobs" (its while loop),
                     \*   "cbs" (the for loop of flushPostFlushCbs)
    cbs,             \* flushPostFlushCbs' local array
    ci,              \* ... and its loop index (from 1)
    cur,             \* the job or callback that is executing
    pc,              \* ... and the next instruction of its body
    does,            \* what each job and callback does when it runs
    sched,           \* history of the current flush pass
    ticks            \* the microtasks p.then() has queued, oldest first

schedVars == <<ticks, queue, postFlushCbs, isFlushing, isFlushPending, seen, phase, cbs, ci,
               cur, pc, does, sched>>

vars == <<scene, heap, targetMap, created, returned, fn, opts, active, deps,
          effectStack, activeEffect, shouldTrack, dirty, value, frames,
          nops, hist, regVars, schedVars>>

isComputed(e) == opts[e] \in {"computed", "runner"}
hasScheduler_notRunner(e) == opts[e] = "sched"
hasScheduler(e) == opts[e] \in {"sched", "runner"}

\* x === y on primitives: fails for NaN against itself
StrictEq(x, y) == x = y /\ x # NaN
hasChanged(v, oldValue) == ~StrictEq(v, oldValue) /\ (StrictEq(v, v) \/ StrictEq(oldValue, oldValue))

\* target[key], Map.prototype.get: undefined for a missing key
Read(t, k) == IF heap[<<t, k>>] = absent THEN undefined ELSE heap[<<t, k>>]
hasOwn(t, k) == heap[<<t, k>>] # absent

\* ------------------------------------------------------- dependency graph
hasDep(tm, t, k) == \E i \in 1 .. Len(tm[t]) : tm[t][i].key = k
\* depsMap.get(key); a missing dep-set contributes like an empty one
getDep(tm, t, k) ==
    IF hasDep(tm, t, k)
    THEN tm[t][CHOOSE i \in 1 .. Len(tm[t]) : tm[t][i].key = k].dep
    ELSE <<>>
Members(t, k) == Range(getDep(targetMap, t, k))
DepKeys == UNION {{<<t, targetMap[t][i].key>> : i \in 1 .. Len(targetMap[t])} : t \in Targets}

\* track() that subscribes to a dep-set only while the dep-set is empty
track_firstOnly(t, k) ==
    IF ~shouldTrack \/ activeEffect = NoEffect
    THEN [tm |-> targetMap, deps |-> deps]
    ELSE LET dm == IF hasDep(targetMap, t, k) THEN targetMap[t]
                   ELSE Append(targetMap[t], [key |-> k, dep |-> <<>>])
             i == CHOOSE j \in 1 .. Len(dm) : dm[j].key = k
         IN  IF dm[i].dep # <<>>
             THEN [tm |-> [targetMap EXCEPT ![t] = dm], deps |-> deps]
             ELSE [tm |-> [targetMap EXCEPT ![t] = [dm EXCEPT ![i].dep = Append(@, activeEffect)]],
                   deps |-> [deps EXCEPT ![activeEffect] = Append(@, <<t, k>>)]]

\* track() without  activeEffect.deps.push(dep)
track_noDepsPush(t, k) ==
    IF ~shouldTrack \/ activeEffect = NoEffect
    THEN [tm |-> targetMap, deps |-> deps]
    ELSE LET dm == IF hasDep(targetMap, t, k) THEN targetMap[t]
                   ELSE Append(targetMap[t], [key |-> k, dep |-> <<>>])
             i == CHOOSE j \in 1 .. Len(dm) : dm[j].key = k
         IN  IF activeEffect \in Range(dm[i].dep)
             THEN [tm |-> [targetMap EXCEPT ![t] = dm], deps |-> deps]
             ELSE [tm |-> [targetMap EXCEPT ![t] = [dm EXCEPT ![i].dep = Append(@, activeEffect)]],
                   deps |-> deps]

\* track(target, type, key) for the current activeEffect: the new targetMap
\* and deps.
track(t, k) ==
    IF ~shouldTrack \/ activeEffect = NoEffect
    THEN [tm |-> targetMap, deps |-> deps]
    ELSE LET dm == IF hasDep(targetMap, t, k) THEN targetMap[t]
                   ELSE Append(targetMap[t], [key |-> k, dep |-> <<>>])
             i == CHOOSE j \in 1 .. Len(dm) : dm[j].key = k
         IN  IF activeEffect \in Range(dm[i].dep)
             THEN [tm |-> [targetMap EXCEPT ![t] = dm], deps |-> deps]
             ELSE [tm |-> [targetMap EXCEPT ![t] = [dm EXCEPT ![i].dep = Append(@, activeEffect)]],
                   deps |-> [deps EXCEPT ![activeEffect] = Append(@, <<t, k>>)]]

\* An identity method as an ordinary property of the view would be read
\* with track() and would run on the proxy, reading length through it.
arrayIdentityInstrumentations_tracked(t) == track(t, "length")

\* includes / indexOf / lastIndexOf on a view of the array t: createGetter
\* hands out the instrumented method before any track(), and the method
\* works on toRaw(this), past every trap: the targetMap and deps after it.
arrayIdentityInstrumentations(t) == [tm |-> targetMap, deps |-> deps]

\* cleanup(effect): delete the effect from the dep-sets its deps list names,
\* then empty the list.
cleanup(e) ==
    [tm |-> [t \in Targets |->
               [i \in 1 .. Len(targetMap[t]) |->
                  IF <<t, targetMap[t][i].key>> \in Range(deps[e])
                  THEN [targetMap[t][i] EXCEPT !.dep = Remove(@, e)]
                  ELSE targetMap[t][i]]],
     deps |-> [deps EXCEPT ![e] = <<>>]]

\* trackChildRun(childRunner) for the current activeEffect.  g: the graph so
\* far, rest: the part of childRunner.deps still to visit.
RECURSIVE trackChildRunFrom(_, _)
trackChildRunFrom(g, rest) ==
    IF rest = <<>> THEN g
    ELSE LET t == Head(rest)[1]
             k == Head(rest)[2]
             i == CHOOSE j \in 1 .. Len(g.tm[t]) : g.tm[t][j].key = k
         IN  IF activeEffect \in Range(g.tm[t][i].dep)
             THEN trackChildRunFrom(g, Tail(rest))
             ELSE trackChildRunFrom(
                    [tm |-> [g.tm EXCEPT ![t] = [@ EXCEPT ![i].dep = Append(@, activeEffect)]],
                     deps |-> [g.deps EXCEPT ![activeEffect] = Append(@, <<t, k>>)]],
                    Tail(rest))
\* a computed read that subscribes its reader to nothing
trackChildRun_none(c) == [tm |-> targetMap, deps |-> deps]

trackChildRun(c) ==
    IF activeEffect = NoEffect
    THEN [tm |-> targetMap, deps |-> deps]
    ELSE trackChildRunFrom([tm |-> targetMap, deps |-> deps], deps[c])

\* addRunners(effects, computedRunners, effectsToAdd); both are Sets, which
\* keep insertion order and ignore a second add.
RECURSIVE addRunners(_, _)
addRunners(acc, effectsToAdd) ==
    IF effectsToAdd = <<>> THEN acc
    ELSE LET e == Head(effectsToAdd)
             Add(set) == IF e \in Range(set) THEN set ELSE Append(set, e)
         IN  addRunners(IF isComputed(e)
                        THEN [acc EXCEPT !.computedRunners = Add(@)]
                        ELSE [acc EXCEPT !.effects = Add(@)],
                        Tail(effectsToAdd))

RECURSIVE addAll(_, _)
addAll(acc, depSets) ==
    IF depSets = <<>> THEN acc
    ELSE addAll(addRunners(acc, Head(depSets)), Tail(depSets))

\* The dep-sets trigger(target, type, key) collects from, in order.
triggerSources(t, type, key) ==
    IF type = "clear"
    THEN [i \in 1 .. Len(targetMap[t]) |-> targetMap[t][i].dep]
    ELSE (IF key # "undefined" THEN <<getDep(targetMap, t, key)>> ELSE <<>>)
         \o (IF type \in {"add", "delete"}
             THEN <<getDep(targetMap, t, IF isArray(t) THEN "length" ELSE ITERATE_KEY)>>
             ELSE <<>>)

\* trigger() running the computed runners only
runOrder_computedOnly(acc) == acc.computedRunners

\* trigger() running the plain effects first
runOrder_effectsFirst(acc) == acc.effects \o acc.computedRunners

\* computedRunners.forEach(run); effects.forEach(run)
runOrder(acc) == acc.computedRunners \o acc.effects

\* trigger(target, type, key): the effects it will run, in order.
trigger(t, type, key) ==
    IF targetMap[t] = <<>> THEN <<>>
    ELSE runOrder(addAll([effects |-> <<>>, computedRunners |-> <<>>],
                         triggerSources(t, type, key)))

\* ------------------------------------------------------------- call stack
\* frames: the bottom is the oldest call.  A frame is one of
\*   fn       a user function running: effect eff's body at instruction pc,
\*            acc the last value it read, pushed: run() put eff on effectStack
\*   trigger  a mutating handler (set, delete, clear) past its change of the
\*            raw target, in trigger() between two scheduleRun calls: rest,
\*            the effects still to run
\*   computed the getter of c.value waiting for runner() to return res
\*   effect   an effect(fn, options) call waiting for the first run
AtTop == frames = <<>>
Top == frames[Len(frames)]
InFn == ~AtTop /\ Top.kind = "fn" /\ Top.pc <= Len(fn[Top.eff])
Cur == fn[Top.eff][Top.pc]
\* user code is about to execute op: at the current instruction of the
\* running function, or outside any effect
Can(op) == \/ AtTop /\ nops < MaxOps /\ op \in UserOps(scene)
           \/ InFn /\ Cur = op
\* the frames once the current instruction has completed (with result v)
Adv == IF AtTop THEN <<>> ELSE [frames EXCEPT ![Len(frames)].pc = @ + 1]
Ret(v) == IF AtTop THEN <<>>
          ELSE [frames EXCEPT ![Len(frames)] = [@ EXCEPT !.pc = @ + 1, !.acc = v]]
Count == nops' = IF AtTop THEN nops + 1 ELSE nops

FnFrame(e, pushed, fresh) ==
    [kind |-> "fn", eff |-> e, pc |-> 1, acc |-> undefined, pushed |-> pushed,
     fresh |-> fresh]

\* History: a function starts.  Every trigger call in progress notes that e
\* ran (ran), and the effect() call creating e counts the start (starts).
MarkStart(fr, e) ==
    [i \in 1 .. Len(fr) |->
       IF fr[i].kind = "trigger" THEN [fr[i] EXCEPT !.ran = @ \cup {e}]
       ELSE IF fr[i].kind = "effect" /\ fr[i].eff = e
            THEN [fr[i] EXCEPT !.starts = IF @ < 2 THEN @ + 1 ELSE @]
            ELSE fr[i]]

\* History: a tracked run of e starts; what is known of its last run is reset.
HistStart(h, e) ==
    [h EXCEPT !.reads[e] = {}, !.own[e] = {}, !.ownTr[e] = {}, !.tracked[e] = {},
              !.via[e] = {}, !.ownVia[e] = {}, !.creads[e] = {}]

\* History: user code reads dep key tk.  reads: every effect whose run is in
\* progress; own: the effect whose body holds the read; ownTr: the same,
\* tracking not paused; tracked: the effect track() is called for.
NoteRead(tk) ==
    LET me == IF ~AtTop /\ Top.kind = "fn" /\ Top.pushed THEN {Top.eff} ELSE {}
    IN  [hist EXCEPT
           !.reads = [e \in AllEffects |->
                        IF e \in Range(effectStack) THEN @[e] \cup {tk} ELSE @[e]],
           !.own = [e \in AllEffects |-> IF e \in me THEN @[e] \cup {tk} ELSE @[e]],
           !.ownTr = [e \in AllEffects |->
                        IF e \in me /\ shouldTrack THEN @[e] \cup {tk} ELSE @[e]],
           !.tracked = [e \in AllEffects |->
                          IF e = activeEffect /\ shouldTrack THEN @[e] \cup {tk} ELSE @[e]]]

\* History: c.value returns to the user function on top of fr while c's
\* effect subscribes to subs.  via: every effect whose run is in progress;
\* ownVia, creads: the effect whose body holds the read; tracked: the effect
\* trackChildRun() is called for.
NoteCRead(h, fr, c, subs) ==
    LET me == IF fr # <<>> /\ fr[Len(fr)].kind = "fn" /\ fr[Len(fr)].pushed
              THEN {fr[Len(fr)].eff} ELSE {}
    IN  [h EXCEPT
           !.via = [e \in AllEffects |->
                      IF e \in Range(effectStack) THEN @[e] \cup subs ELSE @[e]],
           !.ownVia = [e \in AllEffects |-> IF e \in me THEN @[e] \cup subs ELSE @[e]],
           !.tracked = [e \in AllEffects |->
                          IF e = activeEffect THEN @[e] \cup subs ELSE @[e]],
           !.creads = [e \in AllEffects |-> IF e \in me THEN @[e] \cup {c} ELSE @[e]]]

\* An exception leaves frame f: run()'s finally pops the effect it pushed;
\* st is the effect stack.
finally_none(f, st) == st
finally(f, st) == IF f.kind = "fn" /\ f.pushed THEN Front(st) ELSE st

\* An exception reaches the callers fr of the function that threw: every
\* call in progress is left, each run() through its finally, down to the
\* nearest user function whose instruction in progress is in a try block,
\* which goes on after it; with none, the exception leaves the outermost
\* call.  (A caller's pc is already past the instruction in progress.)
Catches(f) == f.kind = "fn" /\ f.pc > 2 /\ fn[f.eff][f.pc - 2] = Try
RECURSIVE Unwind(_, _)
Unwind(fr, st) ==
    IF fr = <<>> THEN [frames |-> <<>>, stack |-> st, caught |-> FALSE]
    ELSE IF Catches(fr[Len(fr)]) THEN [frames |-> fr, stack |-> st, caught |-> TRUE]
    ELSE Unwind(Front(fr), finally(fr[Len(fr)], st))

\* run() without cleanup(effect)
run_noCleanup(e, fr, fresh) ==
    IF ~active[e]
    THEN [called |-> TRUE, pushed |-> FALSE,
          frames |-> Append(MarkStart(fr, e), FnFrame(e, FALSE, fresh)),
          effectStack |-> effectStack, activeEffect |-> activeEffect,
          g |-> [tm |-> targetMap, deps |-> deps]]
    ELSE IF e \notin Range(effectStack)
    THEN [called |-> TRUE, pushed |-> TRUE,
          frames |-> Append(MarkStart(fr, e), FnFrame(e, TRUE, fresh)),
          effectStack |-> Append(effectStack, e), activeEffect |-> e,
          g |-> [tm |-> targetMap, deps |-> deps]]
    ELSE [called |-> FALSE, pushed |-> FALSE, frames |-> fr,
          effectStack |-> effectStack, activeEffect |-> activeEffect,
          g |-> [tm |-> targetMap, deps |-> deps]]

\* run() without  !effectStack.includes(effect)
run_noStackGuard(e, fr, fresh) ==
    IF ~active[e]
    THEN [called |-> TRUE, pushed |-> FALSE,
          frames |-> Append(MarkStart(fr, e), FnFrame(e, FALSE, fresh)),
          effectStack |-> effectStack, activeEffect |-> activeEffect,
          g |-> [tm |-> targetMap, deps |-> deps]]
    ELSE [called |-> TRUE, pushed |-> TRUE,
          frames |-> Append(MarkStart(fr, e), FnFrame(e, TRUE, fresh)),
          effectStack |-> Append(effectStack, e), activeEffect |-> e,
          g |-> cleanup(e)]

\* run(effect, fn, args), called with frames fr below it.  called: whether
\* fn was invoked; pushed: whether the effect went on the effectStack.
run(e, fr, fresh) ==
    IF ~active[e]
    THEN [called |-> TRUE, pushed |-> FALSE,
          frames |-> Append(MarkStart(fr, e), FnFrame(e, FALSE, fresh)),
          effectStack |-> effectStack, activeEffect |-> activeEffect,
          g |-> [tm |-> targetMap, deps |-> deps]]
    ELSE IF e \notin Range(effectStack)
    THEN [called |-> TRUE, pushed |-> TRUE,
          frames |-> Append(MarkStart(fr, e), FnFrame(e, TRUE, fresh)),
          effectStack |-> Append(effectStack, e), activeEffect |-> e,
          g |-> cleanup(e)]
    ELSE [called |-> FALSE, pushed |-> FALSE, frames |-> fr,
          effectStack |-> effectStack, activeEffect |-> activeEffect,
          g |-> [tm |-> targetMap, deps |-> deps]]

Apply(r) ==
    /\ Len(r.frames) <= MaxDepth
    /\ frames' = r.frames
    /\ effectStack' = r.effectStack
    /\ activeEffect' = r.activeEffect
    /\ targetMap' = r.g.tm
    /\ deps' = r.g.deps

\* The keys the getter of c reads, directly or through the computeds it reads.
GetterReads(c) == {<<"o", "a">>}

\* Whether a body both reads and writes property tk.
ReadsAndWrites(body, tk) ==
    /\ \E i \in 1 .. Len(body) : body[i] = Get(tk[1], tk[2], FALSE)
    /\ \E i \in 1 .. Len(body), v \in Vals : body[i] = Set(tk[1], tk[2], v)

\* A mutating handler has changed the raw target and calls trigger(target,
\* type, key), or (type "none") does not.  rest: the effects trigger() will
\* run.  The other fields are history, taken when the handler starts, that
\* the properties are stated with:
\*   write    the handler is createSetter()'s set
\*   changed  the write stores a value other than the one held
\*   snap     the target's depsMap
\*   dead     the stopped effects among rest
\*   must     the effects that are active, have no scheduler, are not on the
\*            effectStack and whose last run tracked (target, key)
\*   mustAny  the effects, computeds' runners aside, whose last run read the
\*            value of a computed that reads (target, key)
\*   must6    as must, for the effects whose last run read the value of a
\*            computed whose effect then subscribed to (target, key)
\*   must9    the effects, not running, whose body reads and writes (target, key)
\*   done     the effects trigger() has run so far, in order
\*   ran      the effects whose function has been invoked since
TriggerFrame(t, type, key, write, changed) ==
    LET rest == IF type = "none" THEN <<>> ELSE trigger(t, type, key)
        running == {frames[i].eff : i \in {j \in 1 .. Len(frames) : frames[j].kind = "fn"}}
        ready(e) == active[e] /\ ~hasScheduler(e) /\ e \notin Range(effectStack)
    IN  [kind |-> "trigger", target |-> t, type |-> type, key |-> key,
         rest |-> rest, done |-> <<>>, ran |-> {},
         write |-> write, changed |-> changed,
         snap |-> targetMap[t],
         dead |-> {e \in Range(rest) : ~active[e]},
         must |-> IF write /\ changed
                  THEN {e \in created : ready(e) /\ <<t, key>> \in hist.tracked[e]}
                  ELSE {},
         mustAny |-> IF write /\ changed
                     THEN {e \in created \ Computeds :
                             \E c \in hist.creads[e] : <<t, key>> \in GetterReads(c)}
                     ELSE {},
         must6 |-> IF write /\ changed
                   THEN {e \in created : ready(e) /\ <<t, key>> \in hist.ownVia[e]}
                   ELSE {},
         must9 |-> IF write /\ changed
                   THEN {e \in returned \ running : ReadsAndWrites(fn[e], <<t, key>>)}
                   ELSE {}]

\* ------------------------------------------------------- identity registry
\* reactive.ts (the second half of collectionHandlers.ts): the four WeakMaps
\* between raw objects and views, the two WeakSets of marks, and the
\* factories.  An object is named by a string: a raw target, the plain object
\* n that o.n holds, or a view "v1", "v2", ... in order of creation.
\* A registry g is a record
\*   views               the proxies made so far, [target, mode] each
\*   rawToReactive ...   the WeakMaps, as sets of <<key, value>>
\*   readonlyValues, nonReactiveValues   the WeakSets
MaxViews == 4      \* views user code makes (new Proxy calls)
MaxCalls == 3      \* calls user code makes on the registry and on views

Raws == {"o", "arr", "m", "s", "n"}
ViewId(i) == "v" \o ToString(i)
isObject(x) == x \notin Vals \cup {undefined, NaN, absent}

NoViews ==
    [views |-> <<>>, rawToReactive |-> {}, reactiveToRaw |-> {}, rawToReadonly |-> {},
     readonlyToRaw |-> {}, readonlyValues |-> {}, nonReactiveValues |-> {}]

\* WeakMap has / get
MapHas(map, k) == \E e \in map : e[1] = k
MapGet(map, k) == IF MapHas(map, k) THEN (CHOOSE e \in map : e[1] = k)[2] ELSE undefined

\* canObserve(value): every object here is of an observable type and none is
\* a component or a vnode
canObserve(g, x) == x \notin g.nonReactiveValues

\* Each factory returns [g, res]: the registry after the call, the result.
createReactiveObject(g, target, toProxy, toRawMap, mode) ==
    IF ~isObject(target) THEN [g |-> g, res |-> target]
    ELSE IF MapGet(g[toProxy], target) # undefined
    THEN [g |-> g, res |-> MapGet(g[toProxy], target)]
    ELSE IF MapHas(g[toRawMap], target) THEN [g |-> g, res |-> target]
    ELSE IF ~canObserve(g, target) THEN [g |-> g, res |-> target]
    ELSE LET observed == ViewId(Len(g.views) + 1)
         IN  [g |-> [g EXCEPT !.views = Append(@, [target |-> target, mode |-> mode]),
                              ![toProxy] = @ \cup {<<target, observed>>},
                              ![toRawMap] = @ \cup {<<observed, target>>}],
              res |-> observed]

readonly(g, target) ==
    createReactiveObject(g,
                         IF MapHas(g.reactiveToRaw, target)
                         THEN MapGet(g.reactiveToRaw, target) ELSE target,
                         "rawToReadonly", "readonlyToRaw", "readonly")

reactive(g, target) ==
    IF MapHas(g.readonlyToRaw, target) THEN [g |-> g, res |-> target]
    ELSE IF target \in g.readonlyValues THEN readonly(g, target)
    ELSE createReactiveObject(g, target, "rawToReactive", "reactiveToRaw", "mutable")

shallowReadonly_noProxy(g, target) ==
    [g |-> [g EXCEPT !.rawToReadonly = @ \cup {<<target, target>>},
                     !.readonlyToRaw = @ \cup {<<target, target>>}],
     res |-> target]

shallowReadonly(g, target) ==
    createReactiveObject(g, target, "rawToReadonly", "readonlyToRaw", "shallowReadonly")

\* reactiveToRaw.get(observed) || readonlyToRaw.get(observed) || observed
toRaw(g, observed) ==
    IF MapGet(g.reactiveToRaw, observed) # undefined THEN MapGet(g.reactiveToRaw, observed)
    ELSE IF MapGet(g.readonlyToRaw, observed) # undefined
    THEN MapGet(g.readonlyToRaw, observed)
    ELSE observed

isReactive(g, x) == MapHas(g.reactiveToRaw, x) \/ MapHas(g.readonlyToRaw, x)
isReadonly(g, x) == MapHas(g.readonlyToRaw, x)
markReadonly(g, x) == [g |-> [g EXCEPT !.readonlyValues = @ \cup {x}], res |-> x]
markNonReactive(g, x) == [g |-> [g EXCEPT !.nonReactiveValues = @ \cup {x}], res |-> x]

\* No call yet.
NoCall ==
    [op |-> "none", arg |-> undefined, key |-> undefined, val |-> undefined,
     res |-> undefined, prev |-> undefined, trig |-> "none", chg |-> FALSE,
     shallow |-> {}]

\* The registry and the views before any call: lock.ts starts locked.
InitIdle ==
    /\ reg = NoViews
    /\ LOCKED = TRUE
    /\ last = NoCall
    /\ ncalls = 0

\* ---------------------------------------------------------------- scheduler
\* scheduler.ts.  The functions user code hands to the scheduler: two jobs
\* and one post-flush callback.  What a function does when it runs is a
\* sequence of calls, <<"queueJob", f>> or <<"queuePostFlushCb", f>>.
MaxEnq == 2        \* calls user code makes on the scheduler outside a flush
RECURSION_LIMIT == 100

Jobs == {"j1", "j2"}
Callbacks == {"cb", "cb2"}
Fns == Jobs \cup Callbacks
NoFn == "none"
Bodies(f) ==
    CASE f = "j1" -> {<<>>, <<<<"queueJob", "j1">>>>, <<<<"queueJob", "j2">>>>,
                      <<<<"queuePostFlushCb", "cb">>>>}
      [] f = "j2" -> {<<>>, <<<<"queueJob", "j1">>>>, <<<<"queueJobNextTick", "j1">>>>}
      [] f = "cb" -> {<<>>, <<<<"queueJob", "j1">>>>, <<<<"throw", "cb">>>>}
      [] f = "cb2" -> {<<>>}

\* queueFlush(): the new isFlushPending
queueFlush_never(flushing, pending) == pending
queueFlush(flushing, pending) == IF ~flushing /\ ~pending THEN TRUE ELSE pending

\* queueJob(job): [queue, isFlushPending]
queueJob_noDedupe(q, flushing, pending, job) ==
    [queue |-> Append(q, job), isFlushPending |-> queueFlush(flushing, pending)]

queueJob_front(q, flushing, pending, job) ==
    IF job \notin Range(q)
    THEN [queue |-> <<job>> \o q, isFlushPending |-> queueFlush(flushing, pending)]
    ELSE [queue |-> q, isFlushPending |-> pending]

queueJob(q, flushing, pending, job) ==
    IF job \notin Range(q)
    THEN [queue |-> Append(q, job), isFlushPending |-> queueFlush(flushing, pending)]
    ELSE [queue |-> q, isFlushPending |-> pending]

\* queuePostFlushCb(cb), cb a function: [postFlushCbs, isFlushPending]
queuePostFlushCb(p, flushing, pending, cb) ==
    [postFlushCbs |-> Append(p, cb), isFlushPending |-> queueFlush(flushing, pending)]

\* [...new Set(cbs)]: the first occurrence of each
RECURSIVE dedupe(_)
dedupe(s) ==
    IF s = <<>> THEN <<>>
    ELSE LET d == dedupe(Front(s))
         IN  IF s[Len(s)] \in Range(d) THEN d ELSE Append(d, s[Len(s)])

\* checkRecursiveUpdates(seen, fn): [seen, throws]; a count of 0 stands for
\* a function the map does not hold
checkRecursiveUpdates(map, f) ==
    IF map[f] = 0 THEN [seen |-> [map EXCEPT ![f] = 1], throws |-> FALSE]
    ELSE IF map[f] > RECURSION_LIMIT THEN [seen |-> map, throws |-> TRUE]
    ELSE [seen |-> [map EXCEPT ![f] = @ + 1], throws |-> FALSE]

NoCounts == [f \in Fns |-> 0]
\* History of a flush pass, from the call that requests the flush to its
\* end: per function the calls of queueJob / queuePostFlushCb with it (enq),
\* those of them that found it absent from its queue (fresh), its
\* executions (runs); how the pass ended ("" while it has not).
NoPass ==
    [enq |-> NoCounts, fresh |-> NoCounts, runs |-> NoCounts, ended |-> "", nq |-> 0,
     fnRan |-> ""]

\* A microtask: flushJobs, queued by queueFlush(), or the function fn that
\* user code handed to nextTick() right after it called queueJob(job); done:
\* the job has been executed since (history).
FlushTick == [fn |-> "flushJobs", job |-> NoFn, done |-> FALSE]
FnTick(j) == [fn |-> "fn", job |-> j, done |-> FALSE]
\* nextTick(fn): p.then(fn)
nextTick(q, t) == Append(q, t)

\* The scheduler after module load.
InitQueues ==
    /\ queue = <<>>
    /\ postFlushCbs = <<>>
    /\ isFlushing = FALSE
    /\ isFlushPending = FALSE
    /\ seen = NoCounts
    /\ phase = "idle"
    /\ cbs = <<>>
    /\ ci = 1
    /\ cur = NoFn
    /\ pc = 1
    /\ sched = NoPass
    /\ ticks = <<>>

\* ... with no function handed to it
InitSchedIdle == InitQueues /\ does = [f \in Fns |-> <<>>]

\* ----------------------------------------------------------------- actions
InitEffects ==
    /\ targetMap = [t \in Targets |-> <<>>]
    /\ created = Computeds
    /\ returned = Computeds
    /\ fn = [e \in AllEffects |-> IF e \in Computeds THEN Getter(e) ELSE <<>>]
    /\ opts = [e \in AllEffects |-> IF e \in Computeds THEN "runner" ELSE "plain"]
    /\ active = [e \in AllEffects |-> e \in Computeds]
    /\ deps = [e \in AllEffects |-> <<>>]
    /\ effectStack = <<>>
    /\ activeEffect = NoEffect
    /\ shouldTrack = TRUE
    /\ dirty = [c \in Computeds |-> TRUE]
    /\ value = [c \in Computeds |-> undefined]
    /\ frames = <<>>
    /\ nops = 0
    /\ hist = [reads |-> [e \in AllEffects |-> {}], own |-> [e \in AllEffects |-> {}],
               ownTr |-> [e \in AllEffects |-> {}], tracked |-> [e \in AllEffects |-> {}],
               via |-> [e \in AllEffects |-> {}],
               ownVia |-> [e \in AllEffects |-> {}],
               creads |-> [e \in AllEffects |-> {}], late |-> FALSE,
               caught |-> FALSE]

Heap0 ==
    [p \in Props |-> IF p \in {<<"o", "a">>, <<"r", "value">>, <<"arr", "length">>}
                     THEN "0"
                     ELSE IF p = <<"p", "c">> THEN "ref" ELSE absent]

Init0 ==
    /\ heap = Heap0
    /\ InitEffects
    /\ InitIdle
    /\ InitSchedIdle

\* effect(fn, options), outside any effect: createReactiveEffect, then the
\* first run (no effect is lazy but the computeds' runners).
CreateEffect ==
    \E e \in UserEffects \ created, p \in Programs(scene) :
      /\ AtTop /\ nops < MaxOps
      /\ e = "e1" \/ "e1" \in created
      /\ created' = created \cup {e}
      /\ fn' = [fn EXCEPT ![e] = p.body]
      /\ opts' = [opts EXCEPT ![e] = p.options]
      /\ active' = [active EXCEPT ![e] = TRUE]
      /\ frames' = <<[kind |-> "effect", eff |-> e, starts |-> 1], FnFrame(e, TRUE, FALSE)>>
      /\ effectStack' = <<e>>
      /\ activeEffect' = e
      /\ nops' = nops + 1
      /\ UNCHANGED <<regVars, schedVars, scene, heap, targetMap, returned, deps, shouldTrack, dirty, value, hist>>

\* view.includes(x), view.indexOf(x), view.lastIndexOf(x) in user code: the
\* search of the raw array (of length 0 or 1 here) for x.
DoIncludes ==
    \E method \in {"includes", "indexOf", "lastIndexOf"}, x \in Vals :
      /\ InFn /\ Cur = Includes(method, "arr", x)
      /\ LET g == arrayIdentityInstrumentations("arr")
             found == heap[<<"arr", "length">>] = "1" /\ heap[<<"arr", "0">>] = x
         IN  /\ targetMap' = g.tm
             /\ deps' = g.deps
             /\ frames' = Ret(IF method = "includes"
                              THEN (IF found THEN "true" ELSE "false")
                              ELSE (IF found THEN "0" ELSE "-1"))
      /\ UNCHANGED <<regVars, schedVars, scene, heap, created, returned, fn, opts, active,
                     effectStack, activeEffect, shouldTrack, dirty, value, nops, hist>>

\* try {: the next instruction runs inside try { ... } catch {}.
DoTry ==
    /\ Can(Try)
    /\ frames' = Adv
    /\ Count
    /\ UNCHANGED <<regVars, schedVars, scene, heap, targetMap, created, returned, fn, opts,
                   active, deps, effectStack, activeEffect, shouldTrack, dirty, value, hist>>

\* throw in a user function.  The exception leaves the function, through
\* run()'s finally when run() pushed it, and then its callers; activeEffect
\* is what the last finally left: the top of the effect stack.
DoThrow ==
    /\ Can(Throw)
    /\ LET u == Unwind(Front(frames), finally(Top, effectStack))
       IN  /\ frames' = u.frames
           /\ effectStack' = u.stack
           /\ activeEffect' = IF Len(u.stack) = Len(effectStack) THEN activeEffect
                              ELSE IF u.stack = <<>> THEN NoEffect
                              ELSE u.stack[Len(u.stack)]
           /\ hist' = [hist EXCEPT !.caught = u.caught]
    /\ Count
    /\ UNCHANGED <<regVars, schedVars, scene, heap, targetMap, created, returned, fn, opts,
                   active, deps, shouldTrack, dirty, value>>

\* effect() returns the effect: user code now holds its handle.
CreateReturn ==
    /\ ~AtTop /\ Top.kind = "effect"
    /\ frames' = Front(frames)
    /\ returned' = returned \cup {Top.eff}
    /\ UNCHANGED <<regVars, schedVars, scene, heap, targetMap, created, fn, opts, active, deps, effectStack,
                   activeEffect, shouldTrack, dirty, value, nops, hist>>

\* createGetter()'s get on a plain object or array, and the Map's get(key):
\* track, then the value (a primitive here, so nothing is wrapped).
DoGet ==
    \E t \in {"o", "arr", "m"}, cond \in BOOLEAN : \E k \in Keys(t) :
      /\ InFn /\ Cur = Get(t, k, cond)
      /\ IF cond /\ Falsy(Top.acc)
         THEN /\ frames' = Adv
              /\ UNCHANGED <<targetMap, deps, hist>>
         ELSE LET g == track(t, k)
              IN  /\ targetMap' = g.tm
                  /\ deps' = g.deps
                  /\ frames' = Ret(Read(t, k))
                  /\ hist' = NoteRead(<<t, k>>)
      /\ UNCHANGED <<regVars, schedVars, scene, heap, created, returned, fn, opts, active, effectStack,
                     activeEffect, shouldTrack, dirty, value, nops>>

\* ownKeys on a plain object, size on a Map: track ITERATE_KEY.
DoOwnKeys ==
    \E t \in {"o", "m"} :
      /\ InFn /\ Cur = OwnKeys(t)
      /\ LET g == track(t, ITERATE_KEY)
         IN  /\ targetMap' = g.tm
             /\ deps' = g.deps
      /\ frames' = Adv
      /\ hist' = NoteRead(<<t, ITERATE_KEY>>)
      /\ UNCHANGED <<regVars, schedVars, scene, heap, created, returned, fn, opts, active, effectStack,
                     activeEffect, shouldTrack, dirty, value, nops>>

\* Reflect.set on the raw target: an array grows to hold a new index.
Stored(t, k, v) ==
    IF isArray(t) /\ k = "0" /\ heap[<<t, "length">>] = "0"
    THEN [heap EXCEPT ![<<t, k>>] = v, ![<<t, "length">>] = "1"]
    ELSE [heap EXCEPT ![<<t, k>>] = v]

\* What createSetter()'s set (mutable view, written through its own proxy)
\* and the Map's set(key, value) trigger: ADD for a new key, SET for a
\* changed value, else nothing.
setTrigger(t, k, v) ==
    IF ~hasOwn(t, k) THEN "add"
    ELSE IF hasChanged(v, Read(t, k)) THEN "set" ELSE "none"

DoSet ==
    \E t \in {"o", "arr", "m"}, v \in Vals \cup {NaN} : \E k \in Keys(t) :
      /\ Can(Set(t, k, v))
      /\ heap' = Stored(t, k, v)
      /\ frames' = Append(Adv, TriggerFrame(t, setTrigger(t, k, v), k, ~isMap(t),
                                            Read(t, k) # v))
      /\ Len(frames') <= MaxDepth
      /\ Count
      /\ UNCHANGED <<regVars, schedVars, scene, targetMap, created, returned, fn, opts, active, deps,
                     effectStack, activeEffect, shouldTrack, dirty, value, hist>>

\* deleteProperty on a plain object, delete(key) on a Map or a Set.
DoDelete ==
    \E t \in {"o", "m", "s"} : \E k \in Keys(t) :
      /\ Can(Del(t, k))
      /\ heap' = [heap EXCEPT ![<<t, k>>] = absent]
      /\ frames' = Append(Adv, TriggerFrame(t, IF hasOwn(t, k) THEN "delete" ELSE "none",
                                            k, FALSE, hasOwn(t, k)))
      /\ Len(frames') <= MaxDepth
      /\ Count
      /\ UNCHANGED <<regVars, schedVars, scene, targetMap, created, returned, fn, opts, active, deps,
                     effectStack, activeEffect, shouldTrack, dirty, value, hist>>

\* clear() on a Map: trigger(target, CLEAR) with no key when it had items.
DoClear ==
    /\ Can(Clear("m"))
    /\ heap' = [p \in Props |-> IF p[1] = "m" THEN absent ELSE heap[p]]
    /\ LET hadItems == \E k \in Keys("m") : hasOwn("m", k)
       IN  frames' = Append(Adv, TriggerFrame("m", IF hadItems THEN "clear" ELSE "none",
                                              "undefined", FALSE, hadItems))
    /\ Len(frames') <= MaxDepth
    /\ Count
    /\ UNCHANGED <<regVars, schedVars, scene, targetMap, created, returned, fn, opts, active, deps,
                   effectStack, activeEffect, shouldTrack, dirty, value, hist>>

\* The Set's has(key): track (s, key), then whether key is a member.
DoHas ==
    \E k \in Keys("s") :
      /\ InFn /\ Cur = Has("s", k)
      /\ LET g == track("s", k)
         IN  /\ targetMap' = g.tm
             /\ deps' = g.deps
      /\ frames' = Ret(IF hasOwn("s", k) THEN "true" ELSE "false")
      /\ hist' = NoteRead(<<"s", k>>)
      /\ UNCHANGED <<regVars, schedVars, scene, heap, created, returned, fn, opts, active, effectStack,
                     activeEffect, shouldTrack, dirty, value, nops>>

\* The Set's add(value): trigger ADD when the value was not a member.
DoAdd ==
    \E k \in Keys("s") :
      /\ Can(SetAdd("s", k))
      /\ heap' = [heap EXCEPT ![<<"s", k>>] = "1"]
      /\ frames' = Append(Adv, TriggerFrame("s", IF hasOwn("s", k) THEN "none" ELSE "add",
                                            k, FALSE, ~hasOwn("s", k)))
      /\ Len(frames') <= MaxDepth
      /\ Count
      /\ UNCHANGED <<regVars, schedVars, scene, targetMap, created, returned, fn, opts, active, deps,
                     effectStack, activeEffect, shouldTrack, dirty, value, hist>>

\* ref: get value() tracks (r, 'value').
DoRefGet ==
    /\ InFn /\ Cur = RGet
    /\ LET g == track("r", "value")
       IN  /\ targetMap' = g.tm
           /\ deps' = g.deps
    /\ frames' = Ret(Read("r", "value"))
    /\ hist' = NoteRead(<<"r", "value">>)
    /\ UNCHANGED <<regVars, schedVars, scene, heap, created, returned, fn, opts, active, effectStack,
                   activeEffect, shouldTrack, dirty, value, nops>>

\* convert(val): a primitive is kept as it is.
convert(v) == v

\* ref: set value(newVal) stores convert(newVal) and calls
\* trigger(r, SET, 'value'), whatever the value held before.
refSetTrigger(v) == "set"

DoRefSet ==
    \E v \in Vals :
      /\ Can(RSet(v))
      /\ heap' = [heap EXCEPT ![<<"r", "value">>] = convert(v)]
      /\ frames' = Append(Adv, TriggerFrame("r", refSetTrigger(v), "value", FALSE,
                                            Read("r", "value") # v))
      /\ Len(frames') <= MaxDepth
      /\ Count
      /\ UNCHANGED <<regVars, schedVars, scene, targetMap, created, returned, fn, opts, active, deps,
                     effectStack, activeEffect, shouldTrack, dirty, value, hist>>

\* createGetter()'s get of p.c, a property holding the ref cell r: the result
\* is res.value, read through the cell's getter, which tracks (r, 'value');
\* (p, c) is not tracked.
DoGetRefProp ==
    /\ InFn /\ Cur = Get("p", "c", FALSE)
    /\ LET g == track("r", "value")
       IN  /\ targetMap' = g.tm
           /\ deps' = g.deps
    /\ frames' = Ret(Read("r", "value"))
    /\ hist' = NoteRead(<<"r", "value">>)
    /\ UNCHANGED <<regVars, schedVars, scene, heap, created, returned, fn, opts, active, effectStack,
                   activeEffect, shouldTrack, dirty, value, nops>>

\* createSetter()'s set of p.c to a value that is not a ref: the old value
\* being a ref, the handler assigns oldValue.value = value and returns; p
\* keeps the cell.
DoSetRefProp ==
    \E v \in Vals :
      /\ Can(Set("p", "c", v))
      /\ heap' = [heap EXCEPT ![<<"r", "value">>] = convert(v)]
      /\ frames' = Append(Adv, TriggerFrame("r", refSetTrigger(v), "value", FALSE,
                                            Read("r", "value") # v))
      /\ Len(frames') <= MaxDepth
      /\ Count
      /\ UNCHANGED <<regVars, schedVars, scene, targetMap, created, returned, fn, opts, active, deps,
                     effectStack, activeEffect, shouldTrack, dirty, value, hist>>

\* trigger() goes on to its next effect: scheduleRun(effect).  The scheduler
\* of a computed's runner sets dirty; any other scheduler is user code that
\* queues the effect and runs nothing now.
TriggerStep ==
    /\ ~AtTop /\ Top.kind = "trigger" /\ Top.rest # <<>>
    /\ LET e == Head(Top.rest)
           fr == [frames EXCEPT ![Len(frames)] =
                    [@ EXCEPT !.rest = Tail(@), !.done = Append(@, e)]]
       IN  IF hasScheduler(e)
           THEN /\ frames' = fr
                /\ dirty' = IF opts[e] = "runner" THEN [dirty EXCEPT ![e] = TRUE] ELSE dirty
                /\ UNCHANGED <<targetMap, deps, effectStack, activeEffect, hist>>
           ELSE LET r == run(e, fr, e \in Top.must6)
                    h == IF r.pushed THEN HistStart(hist, e) ELSE hist
                IN  /\ Apply(r)
                    /\ hist' = IF ~active[e] /\ e \in Top.dead
                               THEN [h EXCEPT !.late = TRUE] ELSE h
                    /\ UNCHANGED dirty
    /\ UNCHANGED <<regVars, schedVars, scene, heap, created, returned, fn, opts, active, shouldTrack, value, nops>>

\* trigger() has run every effect it collected and returns; so does the
\* write that called it.
TriggerReturn ==
    /\ ~AtTop /\ Top.kind = "trigger" /\ Top.rest = <<>>
    /\ frames' = Front(frames)
    /\ UNCHANGED <<regVars, schedVars, scene, heap, targetMap, created, returned, fn, opts, active, deps,
                   effectStack, activeEffect, shouldTrack, dirty, value, nops, hist>>

\* A user function returns.  run()'s finally pops the effectStack and makes
\* its new top the activeEffect; a runner's result goes to the waiting getter.
FnReturn ==
    /\ ~AtTop /\ Top.kind = "fn" /\ Top.pc > Len(fn[Top.eff])
    /\ LET below == Front(frames)
       IN  frames' = IF below # <<>> /\ below[Len(below)].kind = "computed"
                     THEN [below EXCEPT ![Len(below)].res = Top.acc]
                     ELSE below
    /\ IF Top.pushed
       THEN /\ effectStack' = Front(effectStack)
            /\ activeEffect' = IF Len(effectStack) > 1
                               THEN effectStack[Len(effectStack) - 1] ELSE NoEffect
       ELSE UNCHANGED <<effectStack, activeEffect>>
    /\ UNCHANGED <<regVars, schedVars, scene, heap, targetMap, created, returned, fn, opts, active, deps,
                   shouldTrack, dirty, value, nops, hist>>

\* The frames once c.value has returned v to its reader.
Deliver(fr, v) ==
    IF fr # <<>> /\ fr[Len(fr)].kind = "fn"
    THEN [fr EXCEPT ![Len(fr)].acc = v]
    ELSE fr

\* computed: get value() after runner() returned: value = res, dirty = false,
\* trackChildRun(runner), return value.
ComputedReturn ==
    /\ ~AtTop /\ Top.kind = "computed"
    /\ LET c == Top.eff
           g == trackChildRun(c)
       IN  /\ value' = [value EXCEPT ![c] = Top.res]
           /\ dirty' = [dirty EXCEPT ![c] = FALSE]
           /\ targetMap' = g.tm
           /\ deps' = g.deps
           /\ frames' = Deliver(Front(frames), Top.res)
           /\ hist' = NoteCRead(hist, Front(frames), c, Range(deps[c]))
    /\ UNCHANGED <<regVars, schedVars, scene, heap, created, returned, fn, opts, active, effectStack,
                   activeEffect, shouldTrack, nops>>

\* computed: get value().  Dirty: call runner() and wait for it (when run()
\* does not call the getter, the runner being on the effectStack, the value
\* is undefined).  Clean: trackChildRun(runner) and the cached value.
DoCGet ==
    \E c \in Computeds :
      /\ Can(CGet(c))
      /\ Count
      /\ IF dirty[c]
         THEN LET r == run(c, Append(Adv, [kind |-> "computed", eff |-> c, res |-> undefined]),
                           FALSE)
              IN  IF r.called
                  THEN /\ Apply(r)
                       /\ hist' = IF r.pushed THEN HistStart(hist, c) ELSE hist
                       /\ UNCHANGED <<dirty, value>>
                  ELSE LET g == trackChildRun(c)
                       IN  /\ value' = [value EXCEPT ![c] = undefined]
                           /\ dirty' = [dirty EXCEPT ![c] = FALSE]
                           /\ targetMap' = g.tm
                           /\ deps' = g.deps
                           /\ frames' = Ret(undefined)
                           /\ hist' = NoteCRead(hist, frames, c, Range(deps[c]))
                           /\ UNCHANGED <<effectStack, activeEffect>>
         ELSE LET g == trackChildRun(c)
              IN  /\ targetMap' = g.tm
                  /\ deps' = g.deps
                  /\ frames' = Ret(value[c])
                  /\ hist' = NoteCRead(hist, frames, c, Range(deps[c]))
                  /\ UNCHANGED <<dirty, value, effectStack, activeEffect>>
      /\ UNCHANGED <<regVars, schedVars, scene, heap, created, returned, fn, opts, active, shouldTrack>>

\* stop(effect).  User code can only stop an effect whose handle it holds
\* (guarded as in  e && stop(e) ); outside effects it stops live ones only.
DoStop ==
    \E e \in AllEffects :
      /\ Can(Stop(e))
      /\ AtTop => e \in returned /\ active[e]
      /\ Count
      /\ frames' = Adv
      /\ IF e \in returned /\ active[e]
         THEN LET g == cleanup(e)
              IN  /\ targetMap' = g.tm
                  /\ deps' = g.deps
                  /\ active' = [active EXCEPT ![e] = FALSE]
         ELSE UNCHANGED <<targetMap, deps, active>>
      /\ UNCHANGED <<regVars, schedVars, scene, heap, created, returned, fn, opts, effectStack, activeEffect,
                     shouldTrack, dirty, value, hist>>

\* e(): user code (a queued job, say) invokes the effect.
DoCall ==
    \E e \in UserEffects :
      /\ Can(Call(e))
      /\ e \in returned
      /\ Count
      /\ LET r == run(e, Adv, FALSE)
         IN  /\ Apply(r)
             /\ hist' = IF r.pushed THEN HistStart(hist, e) ELSE hist
      /\ UNCHANGED <<regVars, schedVars, scene, heap, created, returned, fn, opts, active, shouldTrack,
                     dirty, value>>

DoPause ==
    /\ Can(Pause)
    /\ shouldTrack
    /\ shouldTrack' = FALSE
    /\ frames' = Adv
    /\ Count
    /\ UNCHANGED <<regVars, schedVars, scene, heap, targetMap, created, returned, fn, opts, active, deps,
                   effectStack, activeEffect, dirty, value, hist>>

DoResume ==
    /\ Can(Resume)
    /\ ~shouldTrack
    /\ shouldTrack' = TRUE
    /\ frames' = Adv
    /\ Count
    /\ UNCHANGED <<regVars, schedVars, scene, heap, targetMap, created, returned, fn, opts, active, deps,
                   effectStack, activeEffect, dirty, value, hist>>

\* ------------------------------------------------------------ specification
Init == scene = "core" /\ Init0
Next ==
    \/ CreateEffect \/ CreateReturn \/ DoGet \/ DoSet \/ DoRefGet \/ DoRefSet
    \/ DoCGet \/ ComputedReturn \/ DoStop \/ DoCall \/ DoPause \/ DoResume
    \/ TriggerStep \/ TriggerReturn \/ FnReturn
Spec == Init /\ [][Next]_vars

InitKeys == scene = "keys" /\ Init0
NextKeys ==
    \/ CreateEffect \/ CreateReturn \/ DoGet \/ DoOwnKeys \/ DoSet \/ DoDelete
    \/ DoClear \/ DoHas \/ DoAdd \/ DoGetRefProp \/ DoSetRefProp
    \/ TriggerStep \/ TriggerReturn \/ FnReturn
SpecKeys == InitKeys /\ [][NextKeys]_vars

\* The "array" scene: effects that call the identity methods of the array,
\* effects that read it, and writes of its element.
InitArray == scene = "array" /\ Init0
NextArray ==
    \/ CreateEffect \/ CreateReturn \/ DoGet \/ DoIncludes \/ DoSet
    \/ TriggerStep \/ TriggerReturn \/ FnReturn
SpecArray == InitArray /\ [][NextArray]_vars

\* The "throw" scene: effects whose bodies throw, alone or nested in the run
\* of an effect that catches.
InitThrow == scene = "throw" /\ Init0
NextThrow ==
    \/ CreateEffect \/ CreateReturn \/ DoGet \/ DoSet \/ DoTry \/ DoThrow
    \/ TriggerStep \/ TriggerReturn \/ FnReturn
SpecThrow == InitThrow /\ [][NextThrow]_vars

\* ------------------------------------------------------ registry and views
\* User code calls the factories and the marks on raw objects and on views,
\* and reads and writes through the views it holds.  Effects play no part
\* here: what a handler would hand to trigger() is recorded in last.trig.
effectVars == <<scene, targetMap, created, returned, fn, opts, active, deps,
                effectStack, activeEffect, shouldTrack, dirty, value, frames, nops, hist>>

Views(g) == {ViewId(i) : i \in 1 .. Len(g.views)}
ViewOf(g, v) == g.views[CHOOSE i \in 1 .. Len(g.views) : ViewId(i) = v]

\* The raw object a view stands over, through views over views.
RECURSIVE Under(_, _)
Under(g, x) == IF x \in Views(g) THEN Under(g, ViewOf(g, x).target) ELSE x

\* x[key]: the stored value when x is a raw object; createGetter()'s get when
\* x is a view (Reflect.get on the target, which may itself be a view; then,
\* unless the view is shallow, the value of the cell when the result is a
\* ref, or the wrapping of an object result).
RECURSIVE createGetter(_, _, _)
createGetter(g, x, key) ==
    IF x \notin Views(g) THEN [g |-> g, res |-> Read(x, key)]
    ELSE LET w == ViewOf(g, x)
             r == createGetter(g, w.target, key)
         IN  IF w.mode = "shallowReadonly" THEN r
             ELSE IF r.res = "ref" THEN [g |-> r.g, res |-> heap[<<"r", "value">>]]
             ELSE IF isObject(r.res)
             THEN IF w.mode = "readonly" THEN readonly(r.g, r.res) ELSE reactive(r.g, r.res)
             ELSE r

\* createSetter()'s set past its guard, through view v over the raw object
\* t: the value unwrapped unless the view is shallow, the store, and the
\* trigger when the write reached the view of the target itself.
\* [heap, trig, res]
setThrough(g, v, key, val) ==
    LET w == ViewOf(g, v)
        t == w.target
        x == IF w.mode = "shallowReadonly" THEN val ELSE toRaw(g, val)
    IN  [heap |-> Stored(t, key, x),
         trig |-> IF t = toRaw(g, v) THEN setTrigger(t, key, x) ELSE "none",
         res |-> "true"]

createSetter_ignoreLock(g, locked, v, key, val) == setThrough(g, v, key, val)
createSetter_refuse(g, locked, v, key, val) ==
    IF ViewOf(g, v).mode # "mutable"
    THEN [heap |-> heap, trig |-> "none", res |-> "true"]
    ELSE setThrough(g, v, key, val)

\* createSetter()'s set: a read-only view refuses the write while LOCKED
createSetter(g, locked, v, key, val) ==
    IF ViewOf(g, v).mode # "mutable" /\ locked
    THEN [heap |-> heap, trig |-> "none", res |-> "true"]
    ELSE setThrough(g, v, key, val)

\* deleteProperty(target, key) of the mutable handlers
deleteProperty(t, key) ==
    [heap |-> [heap EXCEPT ![<<t, key>>] = absent],
     trig |-> IF hasOwn(t, key) THEN "delete" ELSE "none",
     res |-> "true"]

\* the deleteProperty trap of view v
deleteTrap(g, locked, v, key) ==
    IF ViewOf(g, v).mode # "mutable" /\ locked
    THEN [heap |-> heap, trig |-> "none", res |-> "true"]
    ELSE deleteProperty(ViewOf(g, v).target, key)

\* The mutable collection methods add / set / deleteEntry / clear on the raw
\* collection t.
collectionMethod(t, type, key, val) ==
    CASE type \in {"add", "set"} ->
           [heap |-> [heap EXCEPT ![<<t, key>>] = val],
            trig |-> setTrigger(t, key, val),
            res |-> t]
      [] type = "delete" ->
           [heap |-> [heap EXCEPT ![<<t, key>>] = absent],
            trig |-> IF hasOwn(t, key) THEN "delete" ELSE "none",
            res |-> IF hasOwn(t, key) THEN "true" ELSE "false"]
      [] type = "clear" ->
           [heap |-> [p \in Props |-> IF p[1] = t THEN absent ELSE heap[p]],
            trig |-> IF \E k \in Keys(t) : hasOwn(t, k) THEN "clear" ELSE "none",
            res |-> undefined]

createReadonlyMethod_ignoreLock(g, locked, v, type, key, val) ==
    collectionMethod(toRaw(g, v), type, key, val)

\* A mutating method called on collection view v: the mutable method, or
\* createReadonlyMethod()'s wrapper of it on a read-only view.
createReadonlyMethod(g, locked, v, type, key, val) ==
    IF ViewOf(g, v).mode # "mutable" /\ locked
    THEN [heap |-> heap, trig |-> "none", res |-> IF type = "delete" THEN "false" ELSE v]
    ELSE collectionMethod(toRaw(g, v), type, key, val)

\* toReactive / toReadonly: the wrap of the instrumentations of view v
wrap(g, v, x) ==
    IF ~isObject(x) THEN [g |-> g, res |-> x]
    ELSE IF ViewOf(g, v).mode = "mutable" THEN reactive(g, x) ELSE readonly(g, x)

\* get(key) on view v of a Map: wrap(toRaw(this).get(key)); forEach and the
\* iterators hand the same wrap(value) to user code.
RECURSIVE collectionGet(_, _, _)
collectionGet(g, v, key) ==
    IF v \notin Views(g) THEN [g |-> g, res |-> IF hasOwn(v, key) THEN Read(v, key) ELSE undefined]
    ELSE LET r == collectionGet(g, toRaw(g, v), key)
         IN  wrap(r.g, v, r.res)

\* arrayIdentityInstrumentations: toRaw(this).includes(toRaw(value))
includes(g, v, x) ==
    LET arr == toRaw(g, v)
    IN  IF heap[<<arr, "length">>] = "1" /\ heap[<<arr, "0">>] = toRaw(g, x)
        THEN "true" ELSE "false"

Called(op, arg, key, val, res, prev, trig, chg) ==
    [op |-> op, arg |-> arg, key |-> key, val |-> val, res |-> res, prev |-> prev,
     trig |-> trig, chg |-> chg,
     \* the views shallowReadonly() has returned so far
     shallow |-> IF op = "shallowReadonly" /\ res \notin Raws
                 THEN last.shallow \cup {res} ELSE last.shallow]

\* A factory call: the registry after it, and what it returned.
Factory(op, x, r, prev) ==
    /\ ncalls < MaxCalls
    /\ Len(r.g.views) <= MaxViews
    /\ reg' = r.g
    /\ last' = Called(op, x, undefined, undefined, r.res, prev, "none", FALSE)
    /\ ncalls' = ncalls + 1
    /\ UNCHANGED <<heap, LOCKED, effectVars, schedVars>>

\* A write through a view: the raw objects after it, what it triggered and
\* returned.
Mutation(op, v, key, val, r) ==
    /\ ncalls < MaxCalls
    /\ heap' = r.heap
    /\ last' = Called(op, v, key, val, r.res, undefined, r.trig, r.heap # heap)
    /\ ncalls' = ncalls + 1
    /\ UNCHANGED <<reg, LOCKED, effectVars, schedVars>>

CallReactive ==
    \E x \in Raws \cup Views(reg) :
      Factory("reactive", x, reactive(reg, x), MapGet(reg.rawToReactive, x))

CallReadonly ==
    \E x \in Raws \cup Views(reg) :
      Factory("readonly", x, readonly(reg, x), MapGet(reg.rawToReadonly, Under(reg, x)))

\* shallowReadonly() is for the props object: a plain object or a view of it
CallShallowReadonly ==
    \E x \in {"o"} \cup {v \in Views(reg) : Under(reg, v) = "o"} :
      Factory("shallowReadonly", x, shallowReadonly(reg, x),
              MapGet(reg.rawToReadonly, Under(reg, x)))

CallMarkReadonly ==
    \E x \in {"o"} \cup Views(reg) :
      Factory("markReadonly", x, markReadonly(reg, x), undefined)

CallMarkNonReactive ==
    \E x \in {"o"} \cup Views(reg) :
      Factory("markNonReactive", x, markNonReactive(reg, x), undefined)

\* view.a, the property that holds the plain object n
ViewGet ==
    \E v \in {v \in Views(reg) : Under(reg, v) = "o"} :
      Factory("get", v, createGetter(reg, v, "a"), undefined)

\* view.key = val on a view of the plain object or of the array
ViewSet ==
    \E v \in Views(reg), val \in Vals :
      \E key \in IF ViewOf(reg, v).target = "o" THEN {"a", "b"}
                 ELSE IF ViewOf(reg, v).target = "arr" THEN {"0"} ELSE {} :
        Mutation("set", v, key, val, createSetter(reg, LOCKED, v, key, val))

\* delete view.key
ViewDelete ==
    \E v \in Views(reg) :
      \E key \in IF ViewOf(reg, v).target = "o" THEN {"a", "b"} ELSE {} :
        Mutation("delete", v, key, undefined, deleteTrap(reg, LOCKED, v, key))

\* add / set / delete / clear on a view of the Set or of the Map
ViewCollection ==
    \E v \in {v \in Views(reg) : ViewOf(reg, v).target \in {"m", "s"}} :
      \E type \in {"add", "set", "delete", "clear"} :
        /\ type = "add" => ViewOf(reg, v).target = "s"
        /\ type = "set" => ViewOf(reg, v).target = "m"
        /\ Mutation(type, v, IF type = "clear" THEN undefined ELSE "x",
                    IF type = "delete" \/ type = "clear" THEN undefined ELSE "1",
                    createReadonlyMethod(reg, LOCKED, v, type, "x", "1"))

\* view.includes(x) on a view of the array
ViewIncludes ==
    \E v \in {v \in Views(reg) : ViewOf(reg, v).target = "arr"} :
      \E x \in {"1", "n"} \cup Views(reg) :
        /\ ncalls < MaxCalls
        /\ last' = Called("includes", v, undefined, x, includes(reg, v, x), undefined,
                          "none", FALSE)
        /\ ncalls' = ncalls + 1
        /\ UNCHANGED <<reg, heap, LOCKED, effectVars, schedVars>>

\* lock.ts: the framework's lock() and unlock() around user code
lock ==
    /\ ~LOCKED
    /\ LOCKED' = TRUE
    /\ last' = Called("lock", undefined, undefined, undefined, undefined, undefined,
                      "none", FALSE)
    /\ UNCHANGED <<reg, heap, ncalls, effectVars, schedVars>>

unlock ==
    /\ LOCKED
    /\ LOCKED' = FALSE
    /\ last' = Called("unlock", undefined, undefined, undefined, undefined, undefined,
                      "none", FALSE)
    /\ UNCHANGED <<reg, heap, ncalls, effectVars, schedVars>>

\* The raw objects of this scene: o = {a: n}, the Map m = {x -> 1}, the Set
\* s = {x}, and the array [elem]; elem is the plain object n, or the mutable
\* view of n that user code made before it built the array, as in
\* const v = reactive(n); const arr = [v].
ViewsHeap(elem) ==
    [p \in Props |->
       CASE p = <<"o", "a">> -> "n"
         [] p = <<"arr", "0">> -> elem
         [] p \in {<<"arr", "length">>, <<"m", "x">>, <<"s", "x">>} -> "1"
         [] p = <<"r", "value">> -> "0"
         [] p = <<"p", "c">> -> "ref"
         [] OTHER -> absent]

InitViews ==
    /\ scene = "views"
    /\ InitEffects
    /\ \E elem \in {"n", ViewId(1)} :
         /\ heap = ViewsHeap(elem)
         /\ reg = IF elem = ViewId(1) THEN reactive(NoViews, "n").g ELSE NoViews
    /\ LOCKED = TRUE
    /\ last = NoCall
    /\ ncalls = 0
    /\ InitSchedIdle

NextViews ==
    \/ CallReactive \/ CallReadonly \/ CallShallowReadonly \/ CallMarkReadonly
    \/ CallMarkNonReactive \/ ViewGet \/ ViewSet \/ ViewDelete \/ ViewCollection
    \/ ViewIncludes \/ lock \/ unlock
SpecViews == InitViews /\ [][NextViews]_vars

\* The "reads" scene: what reads through views hand to user code.  The raw
\* objects: o = {a: n}, p = {c: r} with the cell r = ref(n), whose value is
\* the mutable view convert(n) made, and the Map m = {x -> n}.
ReadsHeap ==
    [ViewsHeap("n") EXCEPT ![<<"r", "value">>] = ViewId(1), ![<<"m", "x">>] = "n"]

\* reactive(p), readonly(p) on the object that holds the cell
CallObserveCellHolder ==
    \/ Factory("reactive", "p", reactive(reg, "p"), MapGet(reg.rawToReactive, "p"))
    \/ Factory("readonly", "p", readonly(reg, "p"), MapGet(reg.rawToReadonly, "p"))

\* view.c, the property that holds the cell
ViewGetCell ==
    \E v \in {v \in Views(reg) : Under(reg, v) = "p"} :
      Factory("get", v, createGetter(reg, v, "c"), undefined)

\* view.get("x"), view.forEach(cb), view.values() on a view of the Map
ViewCollectionRead ==
    \E v \in {v \in Views(reg) : Under(reg, v) = "m"}, op \in {"mapGet", "forEach", "values"} :
      Factory(op, v, collectionGet(reg, v, "x"), undefined)

InitReads ==
    /\ scene = "reads"
    /\ InitEffects
    /\ heap = ReadsHeap
    /\ reg = reactive(NoViews, "n").g
    /\ LOCKED = TRUE
    /\ last = NoCall
    /\ ncalls = 0
    /\ InitSchedIdle

NextReads ==
    \/ CallReactive \/ CallReadonly \/ CallObserveCellHolder
    \/ ViewGet \/ ViewGetCell \/ ViewCollectionRead
SpecReads == InitReads /\ [][NextReads]_vars

\* ------------------------------------------------------- scheduler actions
\* User code calls queueJob and queuePostFlushCb in a synchronous turn (no
\* flush is running: the flush is a microtask) and from the jobs and
\* callbacks the flush runs.
Calling(op, f) == cur # NoFn /\ pc <= Len(does[cur]) /\ does[cur][pc] = <<op, f>>
Outside == phase = "idle" /\ sched.nq < MaxEnq

\* The history after a call with f; a call made after a pass has ended
\* opens the next pass.
Noted(f, new, outside) ==
    LET h == IF sched.ended # "" THEN [NoPass EXCEPT !.nq = sched.nq] ELSE sched
    IN  [h EXCEPT !.enq[f] = @ + 1,
                  !.fresh[f] = IF new THEN @ + 1 ELSE @,
                  !.nq = IF outside THEN @ + 1 ELSE @]

\* The microtasks after a call that left isFlushPending as pending:
\* queueFlush() has called nextTick(flushJobs) when it set the flag.
Flushed(pending) == IF pending /\ ~isFlushPending THEN nextTick(ticks, FlushTick) ELSE ticks

\* queueJob(j), and then nextTick(fn) when then is TRUE
QueueJob(j, outside, then) ==
    /\ LET r == queueJob(queue, isFlushing, isFlushPending, j)
       IN  /\ queue' = r.queue
           /\ isFlushPending' = r.isFlushPending
           /\ ticks' = IF then THEN nextTick(Flushed(r.isFlushPending), FnTick(j))
                       ELSE Flushed(r.isFlushPending)
    /\ sched' = Noted(j, j \notin Range(queue), outside)
    /\ pc' = IF outside THEN pc ELSE pc + 1
    /\ UNCHANGED <<postFlushCbs, isFlushing, seen, phase, cbs, ci, cur, does,
                   heap, regVars, effectVars>>

QueuePostFlushCb(cb, outside) ==
    /\ LET r == queuePostFlushCb(postFlushCbs, isFlushing, isFlushPending, cb)
       IN  /\ postFlushCbs' = r.postFlushCbs
           /\ isFlushPending' = r.isFlushPending
           /\ ticks' = Flushed(r.isFlushPending)
    /\ sched' = Noted(cb, TRUE, outside)
    /\ pc' = IF outside THEN pc ELSE pc + 1
    /\ UNCHANGED <<queue, isFlushing, seen, phase, cbs, ci, cur, does,
                   heap, regVars, effectVars>>

\* queueJob(j) in a synchronous turn
CallQueueJob == \E j \in Jobs : Outside /\ QueueJob(j, TRUE, FALSE)
\* queueJob(j) by the job or callback that is executing
RunQueueJob == \E j \in Jobs : Calling("queueJob", j) /\ QueueJob(j, FALSE, FALSE)
\* queueJob(j); nextTick(fn) in a synchronous turn, and by the job or
\* callback that is executing
CallQueueJobNextTick == \E j \in Jobs : Outside /\ QueueJob(j, TRUE, TRUE)
RunQueueJobNextTick ==
    \E j \in Jobs : Calling("queueJobNextTick", j) /\ QueueJob(j, FALSE, TRUE)
CallQueuePostFlushCb == \E cb \in Callbacks : Outside /\ QueuePostFlushCb(cb, TRUE)
RunQueuePostFlushCb ==
    \E cb \in Callbacks : Calling("queuePostFlushCb", cb) /\ QueuePostFlushCb(cb, FALSE)

\* The microtask: flushJobs() is entered.
FlushJobs ==
    /\ phase = "idle" /\ ticks # <<>> /\ Head(ticks) = FlushTick
    /\ ticks' = Tail(ticks)
    /\ isFlushPending' = FALSE
    /\ isFlushing' = TRUE
    /\ seen' = NoCounts
    /\ phase' = "jobs"
    /\ UNCHANGED <<queue, postFlushCbs, cbs, ci, cur, pc, does, sched,
                   heap, regVars, effectVars>>

\* checkRecursiveUpdates, then the call of f: the error leaves flushJobs
\* where it stands.
Execute(f) ==
    LET c == checkRecursiveUpdates(seen, f)
    IN  IF c.throws
        THEN /\ phase' = "idle"
             /\ seen' = NoCounts
             /\ sched' = [sched EXCEPT !.ended = "thrown"]
             /\ UNCHANGED <<cur, pc, ticks>>
        ELSE /\ seen' = c.seen
             /\ cur' = f
             /\ pc' = 1
             /\ sched' = [sched EXCEPT !.runs[f] = @ + 1]
             /\ ticks' = [i \in 1 .. Len(ticks) |->
                            IF ticks[i].job = f THEN [ticks[i] EXCEPT !.done = TRUE]
                            ELSE ticks[i]]
             /\ UNCHANGED phase

\* One turn of flushJobs' while loop: queue.shift(), and the job is called.
NextJob ==
    /\ phase = "jobs" /\ cur = NoFn /\ queue # <<>>
    /\ queue' = Tail(queue)
    /\ Execute(Head(queue))
    /\ UNCHANGED <<postFlushCbs, isFlushing, isFlushPending, cbs, ci, does,
                   heap, regVars, effectVars>>

\* The job or callback returns.
Return ==
    /\ cur # NoFn /\ pc > Len(does[cur])
    /\ cur' = NoFn
    /\ UNCHANGED <<ticks, queue, postFlushCbs, isFlushing, isFlushPending, seen, phase, cbs, ci,
                   pc, does, sched, heap, regVars, effectVars>>

\* The callback that is executing throws: nothing catches the exception in
\* flushPostFlushCbs or in flushJobs, and it leaves them where they stand.
ThrowCb ==
    /\ \E f \in Callbacks : Calling("throw", f)
    /\ phase' = "idle"
    /\ cur' = NoFn
    /\ seen' = NoCounts
    /\ sched' = [sched EXCEPT !.ended = "thrown"]
    /\ UNCHANGED <<ticks, queue, postFlushCbs, isFlushing, isFlushPending, cbs, ci, pc, does,
                   heap, regVars, effectVars>>

\* The microtask fn of nextTick(fn) runs.
RunTick ==
    /\ phase = "idle" /\ ticks # <<>> /\ Head(ticks).fn = "fn"
    /\ ticks' = Tail(ticks)
    /\ sched' = [sched EXCEPT !.fnRan = IF Head(ticks).done THEN "afterJob" ELSE "beforeJob"]
    /\ UNCHANGED <<queue, postFlushCbs, isFlushing, isFlushPending, seen, phase, cbs, ci,
                   cur, pc, does, heap, regVars, effectVars>>

\* The job queue has drained: flushPostFlushCbs() copies and empties the
\* callbacks.
FlushPostFlushCbs ==
    /\ phase = "jobs" /\ cur = NoFn /\ queue = <<>>
    /\ cbs' = dedupe(postFlushCbs)
    /\ postFlushCbs' = <<>>
    /\ ci' = 1
    /\ phase' = "cbs"
    /\ UNCHANGED <<ticks, queue, isFlushing, isFlushPending, seen, cur, pc, does, sched,
                   heap, regVars, effectVars>>

\* One turn of flushPostFlushCbs' for loop.
NextCb ==
    /\ phase = "cbs" /\ cur = NoFn /\ ci <= Len(cbs)
    /\ ci' = ci + 1
    /\ Execute(cbs[ci])
    /\ UNCHANGED <<queue, postFlushCbs, isFlushing, isFlushPending, cbs, does,
                   heap, regVars, effectVars>>

\* flushPostFlushCbs() has returned: isFlushing = false, and flushJobs calls
\* itself when a queue has entries.
FlushEnd ==
    /\ phase = "cbs" /\ cur = NoFn /\ ci > Len(cbs)
    /\ IF queue # <<>> \/ postFlushCbs # <<>>
       THEN /\ isFlushing' = TRUE
            /\ phase' = "jobs"
            /\ UNCHANGED sched
       ELSE /\ isFlushing' = FALSE
            /\ phase' = "idle"
            /\ sched' = [sched EXCEPT !.ended = "normal"]
    /\ isFlushPending' = (isFlushPending /\ ~(queue # <<>> \/ postFlushCbs # <<>>))
    /\ UNCHANGED <<ticks, queue, postFlushCbs, seen, cbs, ci, cur, pc, does,
                   heap, regVars, effectVars>>

InitSched ==
    /\ scene = "sched"
    /\ heap = Heap0
    /\ InitEffects
    /\ InitIdle
    /\ InitQueues
    /\ does \in [Fns -> UNION {Bodies(f) : f \in Fns}]
    /\ \A f \in Fns : does[f] \in Bodies(f)

NextSched ==
    \/ CallQueueJob \/ RunQueueJob \/ CallQueuePostFlushCb \/ RunQueuePostFlushCb
    \/ CallQueueJobNextTick \/ RunQueueJobNextTick \/ RunTick
    \/ FlushJobs \/ NextJob \/ Return \/ ThrowCb \/ FlushPostFlushCbs \/ NextCb \/ FlushEnd
SpecSched == InitSched /\ [][NextSched]_vars

\* The event loop runs every microtask that p.then() queued, and a function
\* that has started runs to its end: the steps of the microtasks are taken
\* as long as one is possible.  Calls from synchronous turns may stop.
FlushStep ==
    \/ FlushJobs \/ NextJob \/ Return \/ ThrowCb \/ FlushPostFlushCbs \/ NextCb \/ FlushEnd
    \/ RunQueueJob \/ RunQueuePostFlushCb \/ RunQueueJobNextTick \/ RunTick
SpecSchedFair == SpecSched /\ WF_vars(FlushStep)

\* --------------------------------------------------------------- properties
\* The handler calls in progress; the one that is about to return.
Handlers == {i \in 1 .. Len(frames) : frames[i].kind = "trigger"}
Returning(i) == i \in Handlers /\ frames[i].rest = <<>>
\* The runs in progress of effects that run() put on the effectStack; the one
\* that has finished its body and is about to return.
Runs == {i \in 1 .. Len(frames) : frames[i].kind = "fn" /\ frames[i].pushed}
Finishing(i) == i \in Runs /\ i = Len(frames) /\ frames[i].pc > Len(fn[frames[i].eff])

\* C1: when a write through a mutable view that changed the value at (R, k)
\* is about to return, every effect that was active, had no scheduler, was
\* not on the effect stack and whose most recent run tracked (R, k) has had
\* its function invoked.
C1_WriteRerunsTrackers ==
    \A i \in Handlers : Returning(i) => frames[i].must \subseteq frames[i].ran

\* C1 happens: a changing write returns having re-run the effect that tracked
\* the property and left alone the one with a scheduler that tracked it too.
C1_Witness ==
    \E i \in Handlers :
      /\ Returning(i) /\ frames[i].write /\ frames[i].changed
      /\ frames[i].must = UserEffects \ {e \in UserEffects : opts[e] = "sched"}
      /\ frames[i].must # {}
      /\ \E e \in Range(frames[i].done) : opts[e] = "sched"

\* The dep-sets e is a member of.
Subscriptions(e) == {tk \in DepKeys : e \in Members(tk[1], tk[2])}
\* A run of an active effect not on the effectStack begins: cleanup is done.
Starting(i) == i \in Runs /\ i = Len(frames) /\ frames[i].pc = 1

\* C2 as stated: a run starts with the effect in no dep-set and its deps
\* list empty, and finishes with every dep-set of its deps list belonging to
\* a (target, key) read during the run.
C2_DepsAreReads ==
    \A i \in Runs :
      LET e == frames[i].eff
      IN  /\ Starting(i) => deps[e] = <<>> /\ Subscriptions(e) = {}
          /\ Finishing(i) => Range(deps[e]) \subseteq hist.reads[e]

\* C2: a run starts with the effect in no dep-set and its deps list empty,
\* and finishes with every dep-set of its deps list belonging to a (target,
\* key) that was read during the run or that the runner of a computed was
\* subscribed to when the run read the computed's value.
C2_DepsAreReadsOrInherited ==
    \A i \in Runs :
      LET e == frames[i].eff
      IN  /\ Starting(i) => deps[e] = <<>> /\ Subscriptions(e) = {}
          /\ Finishing(i) => Range(deps[e]) \subseteq (hist.reads[e] \cup hist.via[e])

\* C2 happens: a re-run of  o.a && o.b  that no longer reads o.b finishes,
\* its subscription to (o, b) gone.
C2_Witness ==
    \E i \in Runs :
      LET e == frames[i].eff
      IN  /\ Finishing(i)
          /\ fn[e] = <<Get("o", "a", FALSE), Get("o", "b", TRUE)>>
          /\ created = Computeds \cup {e}
          /\ hasDep(targetMap, "o", "b")
          /\ Subscriptions(e) = {<<"o", "a">>}

\* C3 as stated: when a run of an active effect finishes, the effect is a
\* member of the dep-set of every (R, k) its body read during the run.
C3_ReadsSubscribed ==
    \A i \in Runs :
      Finishing(i) /\ active[frames[i].eff]
        => hist.own[frames[i].eff] \subseteq Subscriptions(frames[i].eff)

\* C3: when a run of an active effect finishes, the effect is a member of
\* the dep-set of every (R, k) its body read during the run while tracking
\* was not paused.
C3_TrackedReadsSubscribed ==
    \A i \in Runs :
      Finishing(i) /\ active[frames[i].eff]
        => hist.ownTr[frames[i].eff] \subseteq Subscriptions(frames[i].eff)

\* C3 happens: a run that read two properties finishes while another effect
\* is subscribed too.
C3_Witness ==
    \E i \in Runs :
      LET e == frames[i].eff
      IN  /\ Finishing(i) /\ active[e]
          /\ hist.ownTr[e] = {<<"o", "a">>, <<"o", "b">>}
          /\ \E x \in UserEffects \ {e} : Subscriptions(x) # {}

\* C4: an effect is a member of a dep-set exactly when its deps list names
\* that dep-set.
C4_Symmetry ==
    \A e \in AllEffects :
      Range(deps[e]) = {tk \in DepKeys : e \in Members(tk[1], tk[2])}

\* C4 happens: an effect subscribed through a computed's read path shares a
\* dep-set with the computed's runner after another effect was stopped.
C4_Witness ==
    \E e \in UserEffects :
      /\ fn[e] = <<CGet("c2")>>
      /\ {e, "c1"} \subseteq Members("o", "a")
      /\ \E x \in created : ~active[x]

\* C5: within one trigger call no effect flagged computed is run after an
\* effect that is not.
C5_ComputedFirst ==
    \A i \in Handlers :
      LET all == frames[i].done \o frames[i].rest
      IN  \A j, k \in 1 .. Len(all) :
            j < k => ~(~isComputed(all[j]) /\ isComputed(all[k]))

\* C5 happens: a trigger call has run an effect flagged computed before a
\* plain effect that subscribed earlier.
C5_Witness ==
    \E i \in Handlers :
      LET done == frames[i].done
      IN  /\ frames[i].rest = <<>>
          /\ \E j, k \in 1 .. Len(done) :
                /\ j < k /\ done[j] = "e2" /\ done[k] = "e1"
                /\ isComputed("e2") /\ ~isComputed("e1")

\* The value the getters of c1 and c2 return on the current state.
GetterVal == Read("o", "a")
\* A function that trigger() invoked for a write to a property its computed
\* reads has just read c.value.
JustReadComputed(i) ==
    /\ i = Len(frames) /\ frames[i].kind = "fn" /\ frames[i].fresh
    /\ frames[i].pc > 1
    /\ \E c \in Computeds : fn[frames[i].eff][frames[i].pc - 1] = CGet(c)

\* C6 as stated: a changing write to (R, k) re-runs every effect whose last
\* run read the value of a computed reading (R, k), and the re-run reads the
\* getter's result on the new state.
C6_ComputedReadersRerun ==
    /\ \A i \in Handlers : Returning(i) => frames[i].mustAny \subseteq frames[i].ran
    /\ \A i \in 1 .. Len(frames) : JustReadComputed(i) => frames[i].acc = GetterVal

\* C6: a changing write to (R, k) re-runs every effect that is active, has
\* no scheduler, is not on the effect stack and whose last run read the
\* value of a computed while the computed's runner was subscribed to (R, k);
\* with no computed stopped, the re-run reads the getter's result on the new
\* state.
C6_SubscribedComputedReadersRerun ==
    /\ \A i \in Handlers : Returning(i) => frames[i].must6 \subseteq frames[i].ran
    /\ \A i \in 1 .. Len(frames) :
         JustReadComputed(i) /\ (\A c \in Computeds : active[c])
           => frames[i].acc = GetterVal

\* C6 happens: re-run for a write of "1" to o.a, a reader of c2 has read the
\* new value through the chain c2, c1.
C6_Witness ==
    \E i \in 1 .. Len(frames) :
      /\ JustReadComputed(i) /\ \A c \in Computeds : active[c]
      /\ fn[frames[i].eff] = <<CGet("c2")>>
      /\ frames[i].acc = "1" /\ value["c1"] = "1"
      /\ i > 1 /\ Returning(i - 1) /\ frames[i].eff \in frames[i - 1].must6

\* trigger()'s dep-set for key when it began.
SnapDep(f, k) ==
    UNION {Range(f.snap[j].dep) : j \in {n \in 1 .. Len(f.snap) : f.snap[n].key = k}}
\* The effects the trigger call is to run.
Collected(f) ==
    IF f.type = "clear"
    THEN UNION {Range(f.snap[j].dep) : j \in 1 .. Len(f.snap)}
    ELSE SnapDep(f, f.key)
           \cup (IF f.type \in {"add", "delete"}
                 THEN SnapDep(f, IF isArray(f.target) THEN "length" ELSE ITERATE_KEY)
                 ELSE {})

\* C7: a trigger call that returns has run exactly the effects that were, when
\* it began, in the dep-sets the operation names, each once.
C7_RunsExactlyCollected ==
    \A i \in Handlers :
      Returning(i) /\ frames[i].type # "none"
        => /\ Range(frames[i].done) = Collected(frames[i])
           /\ Len(frames[i].done) = Cardinality(Collected(frames[i]))

\* C8: a stopped effect is a member of no dep-set, and no trigger has invoked
\* the function of an effect that was stopped when the trigger began.
C8_StoppedIsGone ==
    /\ \A e \in created : ~active[e] => \A tk \in DepKeys : e \notin Members(tk[1], tk[2])
    /\ ~hist.late

\* C9 as stated: the effect() call creating an effect whose body reads and
\* writes one property returns with the body run once, and a changing write
\* to the property outside the effect's run re-runs it.
C9_OnceThenRerun ==
    /\ \A i \in 1 .. Len(frames) :
         frames[i].kind = "effect" /\ i = Len(frames)
           /\ (\E tk \in Props : ReadsAndWrites(fn[frames[i].eff], tk))
           => frames[i].starts = 1
    /\ \A i \in Handlers : Returning(i) => frames[i].must9 \subseteq frames[i].ran

\* C9: the effect() call creating an effect whose body reads and writes one
\* property returns with the body run once, and a changing write to the
\* property outside the effect's run re-runs it when it is active and its
\* last run tracked the property.
C9_OnceThenRerunWhileSubscribed ==
    /\ \A i \in 1 .. Len(frames) :
         frames[i].kind = "effect" /\ i = Len(frames)
           /\ (\E tk \in Props : ReadsAndWrites(fn[frames[i].eff], tk))
           => frames[i].starts = 1
    /\ \A i \in Handlers :
         Returning(i) => (frames[i].must9 \cap frames[i].must) \subseteq frames[i].ran

\* C9 happens: an effect that reads o.a and writes "1" to it was created
\* while o.a was "0", and a write of "0" made by user code outside any effect
\* has re-run it.
C9_Witness ==
    /\ Len(frames) = 1 /\ Returning(1)
    /\ frames[1].key = "a" /\ heap[<<"o", "a">>] = "1"
    /\ \E e \in frames[1].must9 \cap frames[1].must :
         e \in frames[1].ran /\ created = Computeds \cup {e}
    /\ nops = 2

\* C11: a mutation through a view that leaves the raw's content as it was (a
\* write of the value held, NaN over NaN, a Map set of the value held, a Set
\* add of a member, a delete of an absent key, a clear of an empty Map; user
\* code of this specification mutates through views only) runs no effect.
C11_NoChangeNoTrigger ==
    \A i \in Handlers :
      ~frames[i].changed => frames[i].done = <<>> /\ frames[i].ran = {}

\* C10: an assignment to ref.value of the value the cell holds re-runs no
\* effect.
C10_SameValueNoRerun ==
    \A i \in Handlers :
      frames[i].target = "r" /\ ~frames[i].changed => frames[i].ran = {}

\* C12: for every raw object r, whatever calls of the factories and the marks
\* came before, raw(observe(r)) is r and observe(observe(r)) is the very
\* object observe(r) returned.
C12_ObserveIdempotent ==
    \A r \in Raws :
      LET a == reactive(reg, r)
          b == reactive(a.g, a.res)
      IN  toRaw(a.g, a.res) = r /\ b.res = a.res

\* The raw objects no mark was put on.
Unmarked(g) == Raws \ (g.readonlyValues \cup g.nonReactiveValues)
Mutable(g, v) == v \in Views(g) /\ ViewOf(g, v).mode = "mutable"

\* C13: at most one view per raw object and mode (mutable, read-only) is ever
\* created: no two views of one mode stand over the same raw object, a
\* repeated observe(R) or readOnly(R) returns the view the earlier call made,
\* and readOnly or shallowReadOnly of the mutable view of R returns the
\* read-only view of R.
C13_OneViewPerMode ==
    /\ \A v, w \in Views(reg) :
         v # w /\ Under(reg, v) = Under(reg, w) => Mutable(reg, v) # Mutable(reg, w)
    /\ last.op \in {"reactive", "readonly"} /\ last.arg \in Unmarked(reg)
         /\ last.prev # undefined
       => last.res = last.prev
    /\ last.op \in {"readonly", "shallowReadonly"} /\ Mutable(reg, last.arg)
         /\ Under(reg, last.arg) \in Unmarked(reg)
       => last.res = MapGet(reg.rawToReadonly, Under(reg, last.arg))

\* C14: raw(v) of every view v the factories returned is the raw object under
\* it and is not itself a view; raw(x) of anything that is not a view is x.
C14_RawIsRaw ==
    /\ \A v \in Views(reg) :
         toRaw(reg, v) \notin Views(reg) /\ toRaw(reg, v) = Under(reg, v)
    /\ \A x \in Raws \cup Vals : toRaw(reg, x) = x

\* C15: no object is registered both as a mutable view and as a read-only
\* view: reactiveToRaw and readonlyToRaw have no key in common.
C15_ModesDisjoint ==
    {e[1] : e \in reg.reactiveToRaw} \cap {e[1] : e \in reg.readonlyToRaw} = {}

\* A raw object has a mutable view and a read-only view, and a read-only
\* view was made of a mutable view.
C15_Witness ==
    /\ \E r \in Raws : MapHas(reg.rawToReactive, r) /\ MapHas(reg.rawToReadonly, r)
    /\ \E v \in Views(reg) : Mutable(reg, v) /\ MapHas(reg.rawToReadonly, v)

\* C16: a read, through a view that shallowReadOnly returned, of a property
\* that holds an object returns the stored object itself, not a view of it.
C16_ShallowReadsUnwrapped ==
    last.op = "get" /\ last.arg \in last.shallow
      /\ isObject(Read(Under(reg, last.arg), "a"))
    => last.res = Read(Under(reg, last.arg), "a")

\* C17: view.includes(x) on a view of the array is true whenever x is
\* strictly equal to an element of the raw array, be x a primitive, a plain
\* object or a view.
C17_IncludesFindsElement ==
    last.op = "includes" /\ last.val = heap[<<toRaw(reg, last.arg), "0">>]
    => last.res = "true"

\* The last call was a mutating operation through a read-only view (lock()
\* and unlock() count as calls, so LOCKED is what it was during that call).
WroteReadonly ==
    /\ last.op \in {"set", "delete", "add", "clear"}
    /\ ~Mutable(reg, last.arg)
OnCollection == ViewOf(reg, last.arg).target \in {"m", "s"}

\* C18: while LOCKED, an operation through a read-only view (set or delete
\* of a property; add, set, delete or clear on a collection) leaves the raw
\* target as it was and triggers nothing; the collection's delete returns
\* false and its other mutators return the view.
C18_LockedRefuses ==
    WroteReadonly /\ LOCKED
    => /\ ~last.chg
       /\ last.trig = "none"
       /\ OnCollection => last.res = IF last.op = "delete" THEN "false" ELSE last.arg

\* Locked, a write through a read-only view of the plain object of a value
\* the property does not hold was refused.
C18_Witness ==
    /\ WroteReadonly /\ LOCKED /\ last.op = "set"
    /\ ViewOf(reg, last.arg).target = "o"
    /\ Read("o", last.key) # last.val

PassEnded == phase = "idle" /\ sched.ended = "normal"

\* C20: a job passed to queueJob n >= 1 times during one flush pass, before
\* the flush started or while it was running, is executed exactly once in
\* that pass.
C20_EnqueuedRunsOnce ==
    PassEnded => \A j \in Jobs : sched.enq[j] >= 1 => sched.runs[j] = 1

\* C20 as the code has it: in a pass that ends without an error a job is
\* executed once for each queueJob call that found it absent from the
\* queue.  Calls made while the job waits in the queue are dropped; a call
\* made after the job was taken off the queue, by the job itself or later
\* in the pass, enqueues it again.
C20_RunsOncePerFreshCall ==
    PassEnded =>
      \A j \in Jobs : /\ sched.runs[j] = sched.fresh[j]
                      /\ sched.enq[j] >= 1 => sched.runs[j] >= 1

\* A pass ended in which a job was passed to queueJob at least twice, the
\* later calls while it waited in the queue, and was executed once.
C20_Witness ==
    /\ PassEnded
    /\ \E j \in Jobs : sched.enq[j] >= 2 /\ sched.fresh[j] = 1 /\ sched.runs[j] = 1

\* C21: in one flush pass no function is executed more than 100 times: the
\* flush throws the recursion error instead of running it once more.
C21_AtMostLimitRuns ==
    \A f \in Fns : sched.runs[f] <= RECURSION_LIMIT

\* C22: between pauseTracking() and resumeTracking() no step adds an effect
\* to a dep-set or lengthens an effect's deps list, whatever is read.
C22_PausedNoTracking ==
    [][~shouldTrack =>
         /\ \A t \in Targets : \A k \in Keys(t) \cup {ITERATE_KEY} :
              Range(getDep(targetMap', t, k)) \subseteq Range(getDep(targetMap, t, k))
         /\ \A e \in AllEffects : Len(deps'[e]) <= Len(deps[e])]_vars

\* trigger() is about to invoke effect e, which is active, has no scheduler
\* and is on the effectStack: the next step is that invocation.
Reentered(e) ==
    /\ ~AtTop /\ Top.kind = "trigger" /\ Top.rest # <<>> /\ Head(Top.rest) = e
    /\ ~hasScheduler(e) /\ active[e] /\ e \in Range(effectStack)

\* C23: an active effect that is on the effectStack and is invoked again
\* has its body executed, without a second push and without cleanup.
C23_ReentryRunsBody ==
    [][\A e \in AllEffects :
         Reentered(e) =>
           /\ Len(frames') = Len(frames) + 1
           /\ frames'[Len(frames')].kind = "fn" /\ frames'[Len(frames')].eff = e
           /\ effectStack' = effectStack
           /\ deps' = deps]_vars

\* C23 as the code has it: the invocation returns at once.  The body is not
\* executed, the effectStack, the active effect, the deps lists and the
\* dep-sets stay as they are.
C23_ReentrySkipsBody ==
    [][\A e \in AllEffects :
         Reentered(e) =>
           /\ Len(frames') = Len(frames)
           /\ \A i \in 1 .. Len(frames) : frames'[i].kind = frames[i].kind
           /\ frames'[Len(frames)].done = Append(Top.done, e)
           /\ frames'[Len(frames)].ran = Top.ran
           /\ effectStack' = effectStack /\ activeEffect' = activeEffect
           /\ deps' = deps /\ targetMap' = targetMap]_vars

\* A trigger() call has invoked an active effect that was on the
\* effectStack, and no body started.
C23_Witness ==
    \E i \in Handlers : \E e \in Range(frames[i].done) :
      /\ e \notin frames[i].ran
      /\ ~hasScheduler(e) /\ active[e] /\ e \in Range(effectStack)

\* The effects run() has pushed and whose bodies are in progress, outermost
\* first.
Running ==
    LET on == SelectSeq(frames, LAMBDA f : f.kind = "fn" /\ f.pushed)
    IN  [i \in 1 .. Len(on) |-> on[i].eff]

\* C24: at every moment activeEffect is the top of the effect stack (no
\* effect when the stack is empty), and the effect stack holds exactly the
\* effects whose runs are in progress, in call order: when a nested run has
\* finished, by returning or by throwing, the stack is what it was before
\* that run and the enclosing effect is the active one again.
C24_ActiveIsStackTop ==
    /\ activeEffect = IF effectStack = <<>> THEN NoEffect
                      ELSE effectStack[Len(effectStack)]
    /\ effectStack = Running

\* C24 witness: a nested run threw, the enclosing effect caught the
\* exception, went on, and its later read of o.b was tracked for it.
C24_Witness ==
    /\ hist.caught
    /\ ~AtTop /\ Top.kind = "fn" /\ Top.pushed /\ Top.pc > Len(fn[Top.eff])
    /\ fn[Top.eff][1] = Try
    /\ <<"o", "b">> \in Range(deps[Top.eff])
    /\ Top.eff \in Members("o", "b")
    /\ activeEffect = Top.eff

\* The getter of computed c is invoked in this step.
GetterStarts(c) ==
    /\ Len(frames') > Len(frames)
    /\ frames'[Len(frames')].kind = "fn"
    /\ frames'[Len(frames')].eff = c
\* trigger() is about to handle the runner of computed c.
Notifies(c) == ~AtTop /\ Top.kind = "trigger" /\ Top.rest # <<>> /\ Head(Top.rest) = c

\* C25: the getter of a computed is invoked only by a read of its value
\* while it is dirty; a trigger that reaches its runner sets dirty and
\* invokes nothing; and dirty, once a read has cleared it, is set again only
\* by the trigger of a write that changed a property the getter reads: so
\* the reads between two such changes invoke the getter at most once.
C25_GetterOnlyOnDirtyRead ==
    [][\A c \in Computeds :
         /\ GetterStarts(c) =>
               /\ dirty[c]
               /\ AtTop \/ (InFn /\ Cur = CGet(c))
               /\ Len(frames') = Len(frames) + 2
               /\ frames'[Len(frames') - 1].kind = "computed"
               /\ frames'[Len(frames') - 1].eff = c
         /\ Notifies(c) =>
               /\ dirty'[c]
               /\ Len(frames') = Len(frames)
               /\ value' = value
         /\ ~dirty[c] /\ dirty'[c] =>
               /\ Notifies(c)
               /\ <<Top.target, Top.key>> \in GetterReads(c)
               /\ Top.changed]_vars

\* C25 witness: c1 was evaluated while o.a was "0"; the write o.a = "1"
\* has triggered its runner and returned: c1 is dirty and its getter has
\* not run again (the cached value is the old one).
C25_Witness ==
    /\ AtTop
    /\ dirty["c1"] /\ value["c1"] = "0"
    /\ heap[<<"o", "a">>] = "1"

\* The last call was a read through a read-only view that is not shallow.
ReadThroughReadonly ==
    /\ last.op \in {"get", "mapGet", "forEach", "values"}
    /\ last.arg \in Views(reg)
    /\ ViewOf(reg, last.arg).mode = "readonly"

\* C26: an object that a read through a read-only view (not shallow) hands
\* to user code is a read-only view: never a raw object, never a mutable
\* view.
C26_ReadonlyReadsReadonly ==
    ReadThroughReadonly /\ isObject(last.res) =>
      /\ last.res \in Views(reg)
      /\ ViewOf(reg, last.res).mode = "readonly"

\* No job or callback throws; f waits in the job queue or among the
\* post-flush callbacks; flushJobs was left by an exception.
NoThrows == \A f \in Fns : <<"throw", f>> \notin Range(does[f])
Waiting(f) == f \in Range(queue) \cup Range(postFlushCbs)
Abandoned == phase = "idle" /\ isFlushing
Drained ==
    phase = "idle" /\ ~isFlushing /\ ~isFlushPending => queue = <<>> /\ postFlushCbs = <<>>

Fifo ==
    queue' # queue =>
      \/ /\ queue # <<>> /\ queue' = Tail(queue)
         /\ cur = NoFn /\ (cur' = Head(queue) \/ Abandoned')
      \/ \E j \in Jobs : queue' = Append(queue, j)
\* A post-flush callback starts.
CallbackStarts == cur = NoFn /\ cur' \in Callbacks

\* C28: jobs are executed in the order they were enqueued, and no post-flush
\* callback starts while a job waits in the job queue.
C28_NoCallbackWhileJobWaits ==
    [][Fifo /\ (CallbackStarts => queue = <<>>)]_vars

\* C28 as the code has it: jobs are executed in the order they were
\* enqueued; flushPostFlushCbs takes the batch of callbacks only when the
\* job queue is empty, and runs the whole batch: while it does, the only
\* jobs that enter the queue are those a callback of the batch enqueues,
\* and they wait until the batch has ended.
C28_FifoAndBatchAfterDrain ==
    [][/\ Fifo
       /\ phase # "cbs" /\ phase' = "cbs" => queue = <<>> /\ queue' = <<>>
       /\ phase = "cbs" /\ queue' # queue =>
             /\ cur \in Callbacks
             /\ \E j \in Jobs : queue' = Append(queue, j)
       /\ CallbackStarts => phase = "cbs"]_vars

\* C28 witness: two jobs were enqueued from outside, j2 before j1, and wait
\* in that order; j2 has been taken first and is executing.
C28_Witness ==
    /\ phase = "jobs" /\ cur = "j2" /\ sched.runs = [NoCounts EXCEPT !["j2"] = 1]
    /\ sched.nq = 2 /\ sched.fresh["j1"] = 1 /\ sched.fresh["j2"] = 1
    /\ queue = <<"j1">> /\ does["j2"] = <<>>

\* C29: isFlushing is true only while flushJobs is executing: whenever no
\* flushJobs call is in progress, however the last one was left, isFlushing
\* is false (so that queueFlush schedules a flush for what is enqueued next).
C29_FlushingOnlyInFlush == isFlushing => phase # "idle"

\* C30: when user code calls queueJob(j) and then nextTick(fn) in one
\* synchronous turn (outside a flush, with or without a flush pending, or
\* from a job or callback of the flush that is running), j has been
\* executed by the time fn runs.
C30_JobBeforeTick == sched.fnRan # "beforeJob"

\* User code is about to call an identity method of the array; the body of
\* effect e does nothing but call identity methods.
CallsIdentity == InFn /\ Cur[1] = "includes"
IdentityOnly(e) ==
    /\ e \in created /\ fn[e] # <<>>
    /\ \A i \in 1 .. Len(fn[e]) : fn[e][i][1] = "includes"

\* C31: a call of includes, indexOf or lastIndexOf on the array view while
\* an effect runs changes no dep-set and no deps list; an effect that does
\* nothing but such calls is in no dep-set of the array, has an empty deps
\* list, and no trigger ever collects it, so no write to the array re-runs
\* it.
C31_IdentityCallsTrackNothing ==
    [][/\ CallsIdentity => targetMap' = targetMap /\ deps' = deps
       /\ \A e \in UserEffects :
            IdentityOnly(e) =>
              /\ deps'[e] = <<>>
              /\ \A k \in Keys("arr") \cup {ITERATE_KEY} :
                   e \notin Range(getDep(targetMap', "arr", k))
              /\ \A i \in 1 .. Len(frames') :
                   frames'[i].kind = "trigger" =>
                     e \notin Range(frames'[i].rest) \cup Range(frames'[i].done)]_vars

\* C31 witness: e1 calls only an identity method and has run, e2 reads the
\* array; a write that added or changed the element has triggered and
\* re-run e2, and returns without having run e1.
C31_Witness ==
    /\ IdentityOnly("e1") /\ "e1" \in returned
    /\ \E i \in Handlers :
         /\ Returning(i)
         /\ frames[i].target = "arr" /\ frames[i].type # "none"
         /\ frames[i].done = <<"e2">> /\ "e2" \in frames[i].ran
         /\ "e1" \notin frames[i].ran

====
